---- MODULE Spec2Model ----
(***************************************************************************)
(* A model of the RUL dashboard frontend: the HTTP client (services/api),  *)
(* the query client configuration (App), the Dashboard, Engines, Analytics *)
(* and Settings pages and the display components they feed (SummaryCards,  *)
(* EngineGrid and its cards, AlertsPanel, RULChart).                       *)
(*                                                                         *)
(* Conventions.                                                            *)
(*  - A JavaScript string is a sequence of one-character strings.          *)
(*  - An optional value (undefined / null) is a sequence of length 0 or 1. *)
(*  - confidence is held in hundredths (0.7 is 70).                        *)
(*  - A simulated RUL is held in quarters of a cycle and a progress        *)
(*    percentage in thirds of a percent, so that the arithmetic is exact.  *)
(*  - The module holds several specifications over the same variables:     *)
(*    Spec (the running application), SpecApi (the HTTP client called      *)
(*    directly), SpecEngines, SpecDetails and SpecSettings (one page       *)
(*    mounted for good with its user's actions), SpecPolls (AlertsPanel    *)
(*    across polls), SpecProcess (the charts of Analytics) and             *)
(*    specifications that render one component from props drawn from       *)
(*    bounded sets.  Each one leaves the other groups of variables at      *)
(*    rest.                                                                *)
(***************************************************************************)
EXTENDS Integers, Sequences, FiniteSets, TLC

VARIABLES
    route,      \* the page the router has mounted
    queries,    \* the query client's cache: query key -> query state
    timers,     \* refetchInterval timers armed by mounted observers: key -> ms (0: none)
    eng,        \* the Engines page's component state (useState cells)
    loads,      \* getEngines requests issued by Engines.loadEngines and not yet settled
    settings,   \* the Settings page's component state (useState cells)
    analytics,  \* the Analytics page's component state (useState cells)
    timeouts,   \* setTimeout callbacks that have not run yet
    apiCall,    \* SpecApi: the api function awaiting its HTTP response
    apiResult,  \* SpecApi: how the last api call settled
    props,      \* component specifications: the props handed to the component
    view        \* component specifications: what the component rendered

vars == <<route, queries, timers, eng, loads, settings, analytics, timeouts,
          apiCall, apiResult, props, view>>

formVars == <<settings, analytics, timeouts>>
appVars == <<route, queries, timers, eng, loads, formVars>>
apiVars == <<apiCall, apiResult>>
compVars == <<props, view>>

(***************************************************************************)
(* Bounds of the model.                                                    *)
(***************************************************************************)
\* the longest engine list the backend returns to the running application
MaxEngines == 1
\* the longest engine list handed to a component rendered on its own
MaxFleet == 3
\* the largest total_engines of a summary handed to SummaryCards on its own
MaxTotal == 6
\* the largest engine id passed to getEngine / predictRUL
MaxId == 2
\* loadEngines requests of unmounted Engines instances that may still be in flight
MaxOrphans == 1
\* how far below 0 and above the assumed maximum an engine's RUL ranges
RulMargin == 20
\* the longest engine list the chart is rendered with
MaxChart == 2
\* the longest engine list the Engines page is loaded with when its modal is used
MaxShown == 2

(***************************************************************************)
(* Optional values and strings.                                            *)
(***************************************************************************)
None == <<>>
Some(v) == <<v>>

\* String.prototype.toLowerCase on one character
LowerChar(c) ==
    CASE c = "A" -> "a"
      [] c = "B" -> "b"
      [] OTHER -> c

\* String.prototype.toLowerCase
toLowerCase(s) == [i \in 1..Len(s) |-> LowerChar(s[i])]

\* String.prototype.includes: t occurs in s as a contiguous substring
includes(s, t) ==
    \E i \in 1..(Len(s) + 1) :
        /\ i + Len(t) - 1 <= Len(s)
        /\ SubSeq(s, i, i + Len(t) - 1) = t

\* sequences over S of length at most n
SeqUpTo(S, n) == UNION {[1..k -> S] : k \in 0..n}

\* the decimal text of a small engine id, as a template literal renders it
IdText(id) ==
    CASE id = 0 -> "0"
      [] id = 1 -> "1"
      [] id = 2 -> "2"
      [] id = 3 -> "3"
      [] OTHER -> "n"

(***************************************************************************)
(* The data model (services/api): Engine and DashboardSummary are plain    *)
(* records received over HTTP.  The status type is declared as one of      *)
(* three values, but nothing checks a response at run time, so a response  *)
(* may carry any status string.                                            *)
(***************************************************************************)
DeclaredStatuses == {"healthy", "warning", "critical"}
Statuses == DeclaredStatuses \cup {"maintenance"}

Engine(id, name, model, status, rul, conf, active) ==
    [id |-> id, name |-> name, model |-> model, status |-> status,
     current_rul |-> rul, confidence |-> conf, is_active |-> active]

\* the engines the backend of the running application serves
BackendEngines ==
    { Engine(1, <<"A", "b">>, <<"b">>, "healthy", 250, 95, TRUE),
      Engine(2, <<"B">>, <<"a">>, "critical", 20, 60, FALSE) }

\* the responses GET /api/v1/engines may carry in the running application
EngineLists == SeqUpTo(BackendEngines, MaxEngines)

Summary(total, healthy, warning, critical, active, avg) ==
    [total_engines |-> total, healthy_engines |-> healthy,
     warning_engines |-> warning, critical_engines |-> critical,
     active_engines |-> active, average_rul |-> avg]

\* the responses GET /api/v1/dashboard/summary may carry
BackendSummaries == { Summary(5, 5, 0, 0, 5, 200), Summary(9, 1, 2, 6, 7, 40) }

(***************************************************************************)
(* The HTTP client.  An HTTP exchange ends in a response body or in the    *)
(* transport's rejection; an api function settles by returning a value or  *)
(* by throwing an error.                                                   *)
(***************************************************************************)
Err(name, code, message) == [name |-> name, code |-> code, message |-> message]

\* what axios rejects with: no connection, the timeout of both clients, a 5xx, a 4xx
TransportErrors ==
    { Err("AxiosError", "ERR_NETWORK", <<"Network Error">>),
      Err("AxiosError", "ECONNABORTED", <<"timeout of 10000ms exceeded">>),
      Err("AxiosError", "ERR_BAD_RESPONSE", <<"Request failed with status code 500">>),
      Err("AxiosError", "ERR_BAD_REQUEST", <<"Request failed with status code 404">>) }

HttpOk(data) == [ok |-> TRUE, data |-> data, error |-> Err("", "", <<>>)]
HttpFail(e) == [ok |-> FALSE, data |-> <<>>, error |-> e]

Return(v) == [kind |-> "return", value |-> v, error |-> Err("", "", <<>>)]
Throw(e) == [kind |-> "throw", value |-> <<>>, error |-> e]

\* api.getDashboardSummary: await apiClient.get(...); return response.data
getDashboardSummary(resp) ==
    IF resp.ok THEN Return(resp.data) ELSE Throw(resp.error)

\* api.getEngines: await apiClient.get(...); return response.data
getEngines(resp) ==
    IF resp.ok THEN Return(resp.data) ELSE Throw(resp.error)

\* api.getEngine: try { ... } catch { throw new Error(`Failed to fetch engine ${id}`) }
getEngine(id, resp) ==
    IF resp.ok THEN Return(resp.data)
    ELSE Throw(Err("Error", "", <<"Failed to fetch engine ", IdText(id)>>))

\* api.predictRUL: try { ... } catch { throw new Error('Failed to predict RUL') }
predictRUL(request, resp) ==
    IF resp.ok THEN Return(resp.data)
    ELSE Throw(Err("Error", "", <<"Failed to predict RUL">>))

\* a mutant of healthCheck: the catch block rethrows
healthCheckRethrows(resp) ==
    IF resp.ok THEN Return(resp.data) ELSE Throw(resp.error)

\* api.healthCheck: try { ... } catch { return { status: 'offline' } }
healthCheck(resp) ==
    IF resp.ok THEN Return(resp.data) ELSE Return([status |-> "offline"])


(***************************************************************************)
(* The display components of the Dashboard.                                *)
(***************************************************************************)
\* a JavaScript number that a division of two counts yields
Finite(n) == [kind |-> "finite", v |-> n]
NaN == [kind |-> "NaN", v |-> 0]
Infinity == [kind |-> "Infinity", v |-> 0]

\* Math.round((count / total) * 100) for counts >= 0: 0/0 is NaN, n/0 is
\* Infinity, and Math.round rounds a tie upwards.  Exact arithmetic agrees with
\* the double arithmetic wherever a tie falls within the bounds (total = 8).
RoundedPercent(count, total) ==
    IF total = 0
    THEN (IF count = 0 THEN NaN ELSE Infinity)
    ELSE Finite((200 * count + total) \div (2 * total))

Count(s, Test(_)) == Len(SelectSeq(s, Test))

\* a mutant of summaryComputed: healthy counts every engine that is neither
\* warning nor critical
summaryComputedElseHealthy(engines) ==
    LET IsHealthy(e) == e.status \notin {"warning", "critical"}
        IsWarning(e) == e.status = "warning"
        IsCritical(e) == e.status = "critical"
        IsActive(e) == e.is_active
    IN  Summary(Len(engines), Count(engines, IsHealthy), Count(engines, IsWarning),
                Count(engines, IsCritical), Count(engines, IsActive), 0)

\* Dashboard: total, healthy, warning, critical, active, avgRul and summaryComputed.
\* Math.round(sum / active) for sum >= 0, active > 0.
summaryComputed(engines) ==
    LET IsHealthy(e) == e.status = "healthy"
        IsWarning(e) == e.status = "warning"
        IsCritical(e) == e.status = "critical"
        IsActive(e) == e.is_active
        RECURSIVE Sum(_)
        Sum(s) == IF s = <<>> THEN 0 ELSE Head(s).current_rul + Sum(Tail(s))
        active == Count(engines, IsActive)
        avgRul == IF active > 0
                  THEN (2 * Sum(engines) + active) \div (2 * active)
                  ELSE 0
    IN  Summary(Len(engines), Count(engines, IsHealthy), Count(engines, IsWarning),
                Count(engines, IsCritical), active, avgRul)

Card(title, value, num, text) ==
    [title |-> title, value |-> value, subtitle |-> [num |-> num, text |-> text]]

\* SummaryCards({data, isLoading}): the skeleton while loading, "No data
\* available" without data, else the four cards
SummaryCards(data, isLoading) ==
    IF isLoading THEN [kind |-> "skeleton", cards |-> <<>>]
    ELSE IF data = None THEN [kind |-> "nodata", cards |-> <<>>]
    ELSE LET d == data[1]
         IN [kind |-> "cards",
             cards |-> <<
               Card("Total Engines", d.total_engines, Finite(d.active_engines), " active"),
               Card("Healthy", d.healthy_engines,
                    RoundedPercent(d.healthy_engines, d.total_engines), "% of fleet"),
               Card("Warning", d.warning_engines,
                    RoundedPercent(d.warning_engines, d.total_engines), "% of fleet"),
               Card("Critical", d.critical_engines,
                    RoundedPercent(d.critical_engines, d.total_engines), "% of fleet") >>]

\* a percentage is held in thirds of a percent, so that rul / 300 * 100 is exact
PercentUnit == 3

\* "assuming max RUL of 300"
AssumedMaxRul == 300

Min(a, b) == IF a < b THEN a ELSE b
Max(a, b) == IF a > b THEN a ELSE b

\* a mutant of getProgressPercentage: the ratio is not clamped
getProgressPercentageUnclamped(rul) == (rul * 100 * PercentUnit) \div AssumedMaxRul

\* getProgressPercentage: Math.min(100, Math.max(0, (rul / 300) * 100))
getProgressPercentage(rul) ==
    Min(100 * PercentUnit, Max(0, (rul * 100 * PercentUnit) \div AssumedMaxRul))

\* 2 * Math.PI * 45, held as 100 * PercentUnit equal units of length
circumference == 100 * PercentUnit

\* EngineCard({engine, index}): the progress ring of the card
EngineCard(engine, index) ==
    LET progressPercentage == getProgressPercentage(engine.current_rul)
    IN [index |-> index,
        progressPercentage |-> progressPercentage,
        strokeDasharray |-> circumference,
        strokeDashoffset |->
            circumference - (progressPercentage * circumference) \div (100 * PercentUnit)]

\* EngineGrid({engines, isLoading}): the skeleton while loading, "No engines
\* found" for a missing or empty list, else one card per engine in list order
EngineGrid(engines, isLoading) ==
    IF isLoading THEN [kind |-> "skeleton", cards |-> <<>>]
    ELSE IF engines = None \/ Len(engines[1]) = 0 THEN [kind |-> "empty", cards |-> <<>>]
    ELSE [kind |-> "grid",
          cards |-> [i \in 1..Len(engines[1]) |->
                       [key |-> engines[1][i].id, card |-> EngineCard(engines[1][i], i - 1)]]]

Alert(prefix, n, type, title, engineName) ==
    [id |-> <<prefix, n>>, type |-> type, title |-> title, engineName |-> engineName]

\* a mutant of SortBySeverity: the alerts are returned in the order they were pushed
SortBySeverityUnsorted(alerts) == alerts

severityOrder(type) ==
    CASE type = "critical" -> 0
      [] type = "warning" -> 1
      [] OTHER -> 2

\* Array.prototype.sort with the comparator severityOrder[a.type] -
\* severityOrder[b.type]: a stable sort, here by insertion
RECURSIVE SortBySeverity(_)
SortBySeverity(alerts) ==
    IF alerts = <<>> THEN <<>>
    ELSE LET last == alerts[Len(alerts)]
             front == SortBySeverity(SubSeq(alerts, 1, Len(alerts) - 1))
             NotAfter(a) == severityOrder(a.type) - severityOrder(last.type) <= 0
             After(a) == ~NotAfter(a)
         IN SelectSeq(front, NotAfter) \o <<last>> \o SelectSeq(front, After)

\* a mutant of EngineAlerts: the confidence alert is raised at 0.7 too
EngineAlertsAtMost(engine) ==
    (IF engine.status = "critical"
     THEN <<Alert("critical-", engine.id, "critical", "Critical RUL Alert", Some(engine.name))>>
     ELSE IF engine.status = "warning"
     THEN <<Alert("warning-", engine.id, "warning", "RUL Warning", Some(engine.name))>>
     ELSE <<>>)
    \o
    (IF engine.confidence <= 70
     THEN <<Alert("confidence-", engine.id, "info", "Low Prediction Confidence", Some(engine.name))>>
     ELSE <<>>)

\* the alerts one engine contributes, in the order forEach pushes them
EngineAlerts(engine) ==
    (IF engine.status = "critical"
     THEN <<Alert("critical-", engine.id, "critical", "Critical RUL Alert", Some(engine.name))>>
     ELSE IF engine.status = "warning"
     THEN <<Alert("warning-", engine.id, "warning", "RUL Warning", Some(engine.name))>>
     ELSE <<>>)
    \o
    (IF engine.confidence < 70
     THEN <<Alert("confidence-", engine.id, "info", "Low Prediction Confidence", Some(engine.name))>>
     ELSE <<>>)

\* generateAlertsFromEngines: the engines' alerts, the system alert, sorted by severity
generateAlertsFromEngines(engines) ==
    LET RECURSIVE Pushed(_)
        Pushed(s) == IF s = <<>> THEN <<>> ELSE EngineAlerts(Head(s)) \o Pushed(Tail(s))
    IN SortBySeverity(Pushed(engines)
                      \o <<Alert("system-", 1, "info", "Model Update Available", None)>>)

\* AlertsPanel({engines}): the alerts, or "No active alerts" when there are none
AlertsPanel(engines) ==
    LET alerts == IF engines # None THEN generateAlertsFromEngines(engines[1]) ELSE <<>>
    IN [kind |-> IF Len(alerts) > 0 THEN "alerts" ELSE "empty", alerts |-> alerts]

\* const hoursBack = 24
HoursBack == 24

\* i * 60 * 60 * 1000: one hour in milliseconds
HourMs == 60 * 60 * 1000

\* a simulated RUL is held in quarters of a cycle, so that half a cycle of
\* degradation and the noise are exact
ValueUnit == 4

\* Math.random() returns one of the numbers k / RandomSteps, k in 0..RandomSteps - 1
RandomSteps == 40

\* the k of the draw-th call of Math.random() of a source of random numbers:
\* sources differ in their first number and in the stride between numbers
Random(source, draw) == (source.seed + draw * source.stride) % RandomSteps

\* a value of a JavaScript object: a number, or a string holding HH:MM
Num(n) == [kind |-> "number", n |-> n]
Str(hhmm) == [kind |-> "string", n |-> hhmm]

\* new Date(timestamp).toLocaleTimeString([], {hour: '2-digit', minute: '2-digit'})
toLocaleTimeString(timestamp) ==
    Str(((timestamp \div HourMs) % 24) * 100 + ((timestamp \div (60 * 1000)) % 60))

\* obj[key] = value
Assign(obj, key, value) ==
    [k \in DOMAIN obj \cup {key} |-> IF k = key THEN value ELSE obj[k]]

TimeKey == <<"t", "i", "m", "e">>
TimestampKey == <<"t", "i", "m", "e", "s", "t", "a", "m", "p">>

\* Math.round of a number held in ValueUnit-ths
MathRound(x) == (x + ValueUnit \div 2) \div ValueUnit

\* engine.status === 'critical' ? 2 : engine.status === 'warning' ? 1 : 0.5
degradationRate(engine) ==
    IF engine.status = "critical" THEN 2 * ValueUnit
    ELSE IF engine.status = "warning" THEN 1 * ValueUnit
    ELSE ValueUnit \div 2

\* (Math.random() - 0.5) * 10
Noise(rnd) == (rnd * 10 * ValueUnit) \div RandomSteps - 5 * ValueUnit

\* a mutant of historicalValue: the simulated RUL is not clamped at 0
historicalValueUnclamped(engine, i, rnd) ==
    MathRound(engine.current_rul * ValueUnit + i * degradationRate(engine) + Noise(rnd))

\* Math.round(Math.max(0, baseRUL + i * degradationRate + noise))
historicalValue(engine, i, rnd) ==
    MathRound(Max(0, engine.current_rul * ValueUnit + i * degradationRate(engine) + Noise(rnd)))

\* the data point i hours back: time and timestamp, then one assignment
\* dataPoint[engine.name] per engine, in list order
DataPoint(engines, now, i, source) ==
    LET timestamp == now - i * HourMs
        first == (HoursBack - i) * Len(engines)
        RECURSIVE Filled(_)
        Filled(n) ==
            IF n = 0
            THEN [k \in {TimeKey, TimestampKey} |->
                    IF k = TimeKey THEN toLocaleTimeString(timestamp) ELSE Num(timestamp)]
            ELSE Assign(Filled(n - 1), engines[n].name,
                        Num(historicalValue(engines[n], i, Random(source, first + n - 1))))
    IN Filled(Len(engines))

\* generateHistoricalData: for (i = hoursBack; i >= 0; i--) data.push(dataPoint)
generateHistoricalData(engines, now, source) ==
    [p \in 1..(HoursBack + 1) |-> DataPoint(engines, now, HoursBack - (p - 1), source)]

\* RULChart's chartData: [] for a missing or empty list
chartData(engines, now, source) ==
    IF engines = None \/ Len(engines[1]) = 0 THEN <<>>
    ELSE generateHistoricalData(engines[1], now, source)

\* RULChart({engines}): "No engine data available" for a missing or empty
\* list, else one line per engine keyed by its name, drawn over chartData
RULChart(engines) ==
    IF engines = None \/ Len(engines[1]) = 0 THEN [kind |-> "empty", lines |-> <<>>]
    ELSE [kind |-> "chart",
          lines |-> [i \in 1..Len(engines[1]) |-> engines[1][i].name]]


(***************************************************************************)
(* The query client (App: new QueryClient) and the pages' useQuery calls.  *)
(* A query is fetched by running its queryFn; while a fetch (its request   *)
(* or the wait before its retry) is under way the query's isFetching is    *)
(* true.  A failed request is retried while fewer than Retry retries were  *)
(* made, unless the query lost its last observer in the meantime.          *)
(***************************************************************************)
Pages == {"Dashboard", "Engines", "Analytics", "Settings"}
QueryKeys == {"engines", "dashboard-summary"}

\* retry: 1
Retry == 1
\* Dashboard: refetchInterval: 10000
DashboardRefetchInterval == 10000
\* Analytics: refetchInterval: 30000 on both of its queries
AnalyticsRefetchInterval == 30000

\* the queries a page's useQuery calls observe
Observed(page) ==
    CASE page = "Dashboard" -> {"engines"}
      [] page = "Analytics" -> {"engines", "dashboard-summary"}
      [] OTHER -> {}

\* a mutant of RefetchInterval: only Analytics passes a refetchInterval
RefetchIntervalAnalyticsOnly(page) ==
    CASE page = "Analytics" -> AnalyticsRefetchInterval
      [] OTHER -> 0

\* the refetchInterval a page gives its observers
RefetchInterval(page) ==
    CASE page = "Dashboard" -> DashboardRefetchInterval
      [] page = "Analytics" -> AnalyticsRefetchInterval
      [] OTHER -> 0

\* a query nobody has fetched yet
NewQuery ==
    [data |-> None, status |-> "pending", phase |-> "idle",
     failureCount |-> 0, attempts |-> 0, retryCancelled |-> FALSE]

isFetching(q) == q.phase # "idle"

\* Query.fetch: a fetch under way is joined (request deduplication) and its
\* retry allowed again; otherwise the queryFn is run
Fetch(q) ==
    IF q.phase # "idle" THEN [q EXCEPT !.retryCancelled = FALSE]
    ELSE [q EXCEPT !.phase = "request", !.failureCount = 0, !.attempts = 1,
                   !.retryCancelled = FALSE,
                   !.status = IF q.data = None THEN "pending" ELSE q.status]

\* the queryFn resolved: the value replaces the cached data
Resolved(q, value) ==
    [q EXCEPT !.data = Some(value), !.status = "success", !.phase = "idle",
              !.failureCount = 0]

\* the fetch is given up: the error is reported, the cached data is kept
GivenUp(q) ==
    [q EXCEPT !.status = "error", !.phase = "idle", !.failureCount = @ + 1]

\* a mutant of Rejected: a failed request is never retried
RejectedNoRetry(q) == GivenUp(q)

\* the queryFn rejected: retry (after a delay) or give up
Rejected(q) ==
    IF q.retryCancelled \/ ~(q.failureCount < Retry) THEN GivenUp(q)
    ELSE [q EXCEPT !.phase = "retryWait", !.failureCount = @ + 1]

\* the retry delay has passed: run the queryFn again, unless the retry was cancelled
Retried(q) ==
    IF q.retryCancelled THEN GivenUp(q)
    ELSE [q EXCEPT !.phase = "request", !.attempts = @ + 1]

\* the last observer of a query unsubscribes: a fetch under way goes on, its retry is cancelled
Unobserved(q) ==
    IF q.phase # "idle" THEN [q EXCEPT !.retryCancelled = TRUE] ELSE q

\* an observer subscribes: the query is fetched when it has no data or its data
\* is older than staleTime (whether that much time has passed is the input stale)
Subscribed(q, stale) ==
    IF q.data = None \/ stale THEN Fetch(q) ELSE q

(***************************************************************************)
(* The Engines page: its useState cells and loadEngines.                   *)
(***************************************************************************)
\* the useState initial values
EnginesInitial ==
    [engines |-> <<>>, searchTerm |-> <<>>, statusFilter |-> "all",
     selectedEngine |-> None, showDetails |-> FALSE, isLoading |-> FALSE]

\* loadEngines up to its await: setIsLoading(true)
LoadStarted(st) == [st EXCEPT !.isLoading = TRUE]

\* a mutant of LoadSettled: setIsLoading(false) at the end of the try block
\* instead of in finally
LoadSettledKeepsLoading(st, settled) ==
    IF settled.kind = "return"
    THEN [st EXCEPT !.engines = settled.value, !.isLoading = FALSE]
    ELSE st

\* a mutant of LoadSettled: the fetched engines are appended to the held ones
LoadSettledMerging(st, settled) ==
    IF settled.kind = "return"
    THEN [st EXCEPT !.engines = st.engines \o settled.value, !.isLoading = FALSE]
    ELSE [st EXCEPT !.isLoading = FALSE]

\* loadEngines after its await: setEngines(data) on success, console.error on
\* failure, setIsLoading(false) in either case
LoadSettled(st, settled) ==
    IF settled.kind = "return"
    THEN [st EXCEPT !.engines = settled.value, !.isLoading = FALSE]
    ELSE [st EXCEPT !.isLoading = FALSE]

\* nothing in flight, nothing recorded
NoLoads == [current |-> 0, orphans |-> 0, lastAttempts |-> 0, lastOutcome |-> "none"]

(***************************************************************************)
(* The Settings page and Analytics' own state: useState cells, and the     *)
(* setTimeout callbacks of their simulated actions.                        *)
(***************************************************************************)
\* the useState initial values of Settings
SettingsInitial ==
    [activeTab |-> "general",
     notifications |-> [emailAlerts |-> TRUE, smsAlerts |-> FALSE, pushNotifications |-> TRUE,
                        criticalOnly |-> FALSE, maintenanceReminders |-> TRUE,
                        weeklyReports |-> TRUE],
     modelSettings |-> [predictionInterval |-> 30, confidenceThreshold |-> 80,
                        autoRetrain |-> TRUE, batchSize |-> 32, sequenceLength |-> 30,
                        modelVersion |-> "transformer_fd002_v1.0"],
     systemSettings |-> [theme |-> "dark", language |-> "en", timezone |-> "UTC",
                         autoRefresh |-> TRUE, refreshInterval |-> 30,
                         maxHistoryDays |-> 365],
     showApiKey |-> FALSE,
     isSaving |-> FALSE]

\* the useState initial values of Analytics
AnalyticsInitial == [selectedTimeRange |-> "6M", isLoading |-> FALSE]

\* setTimeout(() => setIsSaving(false), 1500)
SaveDelay == 1500
\* setTimeout(() => setIsLoading(false), 1500)
RefreshDelay == 1500

\* no callback pending: save and refresh hold the delays of the pending
\* callbacks of the mounted Settings and Analytics, orphans counts the
\* pending callbacks of components that have unmounted
NoTimeouts == [save |-> <<>>, refresh |-> <<>>, orphans |-> 0]

\* Settings' save button: disabled={isSaving}
SaveButton(st) ==
    [disabled |-> st.isSaving,
     label |-> IF st.isSaving THEN "Saving..." ELSE "Save Changes"]

\* Analytics' refresh button: disabled={isLoading}
RefreshButton(st) == [disabled |-> st.isLoading, spinning |-> st.isLoading]

(***************************************************************************)
(* The running application: the router mounts one page at a time.          *)
(***************************************************************************)
\* the effects of mounting page p on the query cache, given which cached data is stale
MountQueries(qs, p, stale) ==
    [k \in QueryKeys |-> IF k \in Observed(p) THEN Subscribed(qs[k], stale[k]) ELSE qs[k]]

UnmountQueries(qs, p) ==
    [k \in QueryKeys |-> IF k \in Observed(p) THEN Unobserved(qs[k]) ELSE qs[k]]

MountTimers(p) ==
    [k \in QueryKeys |-> IF k \in Observed(p) THEN RefetchInterval(p) ELSE 0]

\* the Engines page mounts: fresh state, and its effect calls loadEngines
MountEngines(p) == IF p = "Engines" THEN LoadStarted(EnginesInitial) ELSE EnginesInitial

AppInit ==
    \E p \in Pages :
        /\ route = p
        /\ queries = MountQueries([k \in QueryKeys |-> NewQuery], p, [k \in QueryKeys |-> FALSE])
        /\ timers = MountTimers(p)
        /\ eng = MountEngines(p)
        /\ loads = [NoLoads EXCEPT !.current = IF p = "Engines" THEN 1 ELSE 0]
        /\ settings = SettingsInitial
        /\ analytics = AnalyticsInitial
        /\ timeouts = NoTimeouts

AppIdle ==
    /\ route = "Settings"
    /\ queries = [k \in QueryKeys |-> NewQuery]
    /\ timers = [k \in QueryKeys |-> 0]
    /\ eng = EnginesInitial
    /\ loads = NoLoads
    /\ settings = SettingsInitial
    /\ analytics = AnalyticsInitial
    /\ timeouts = NoTimeouts

\* the user follows a navigation link: the old page unmounts, the new one mounts
Navigate(p) ==
    /\ p # route
    /\ loads.orphans + loads.current
         + timeouts.orphans + Len(timeouts.save) + Len(timeouts.refresh) <= MaxOrphans
    /\ \E stale \in [Observed(p) -> BOOLEAN] :
          queries' = MountQueries(UnmountQueries(queries, route), p, stale)
    /\ route' = p
    /\ timers' = MountTimers(p)
    /\ eng' = MountEngines(p)
    /\ loads' = [current |-> IF p = "Engines" THEN 1 ELSE 0,
                 orphans |-> loads.orphans + loads.current,
                 lastAttempts |-> 0, lastOutcome |-> "none"]
    /\ settings' = SettingsInitial
    /\ analytics' = AnalyticsInitial
    /\ timeouts' = [save |-> <<>>, refresh |-> <<>>,
                     orphans |-> timeouts.orphans + Len(timeouts.save) + Len(timeouts.refresh)]

\* a refetchInterval timer ticks
TimerFire(k) ==
    /\ timers[k] > 0
    /\ queries' = [queries EXCEPT ![k] = Fetch(@)]
    /\ UNCHANGED <<route, timers, eng, loads, formVars>>

\* the request of the 'engines' query settles
EnginesQuerySettle ==
    /\ queries["engines"].phase = "request"
    /\ \/ \E list \in EngineLists :
             queries' = [queries EXCEPT !["engines"] =
                            Resolved(@, getEngines(HttpOk(list)).value)]
       \/ /\ \E e \in TransportErrors : getEngines(HttpFail(e)).kind = "throw"
          /\ queries' = [queries EXCEPT !["engines"] = Rejected(@)]
    /\ UNCHANGED <<route, timers, eng, loads, formVars>>

\* the request of the 'dashboard-summary' query settles
SummaryQuerySettle ==
    /\ queries["dashboard-summary"].phase = "request"
    /\ \/ \E sum \in BackendSummaries :
             queries' = [queries EXCEPT !["dashboard-summary"] =
                            Resolved(@, getDashboardSummary(HttpOk(sum)).value)]
       \/ /\ \E e \in TransportErrors : getDashboardSummary(HttpFail(e)).kind = "throw"
          /\ queries' = [queries EXCEPT !["dashboard-summary"] = Rejected(@)]
    /\ UNCHANGED <<route, timers, eng, loads, formVars>>

\* the delay before a retry passes
RetryDelayElapsed(k) ==
    /\ queries[k].phase = "retryWait"
    /\ queries' = [queries EXCEPT ![k] = Retried(@)]
    /\ UNCHANGED <<route, timers, eng, loads, formVars>>

\* an unobserved, idle query is garbage-collected from the cache
CollectGarbage(k) ==
    /\ k \notin Observed(route)
    /\ queries[k].phase = "idle"
    /\ queries[k] # NewQuery
    /\ queries' = [queries EXCEPT ![k] = NewQuery]
    /\ UNCHANGED <<route, timers, eng, loads, formVars>>

\* a mutant of Refresh: the button is not disabled while isLoading
RefreshAlways ==
    /\ route = "Engines"
    /\ eng' = LoadStarted(eng)
    /\ loads' = [loads EXCEPT !.current = @ + 1]
    /\ UNCHANGED <<route, queries, timers, formVars>>

\* Engines: the Refresh button (disabled while isLoading) calls handleRefresh -> loadEngines
Refresh ==
    /\ route = "Engines"
    /\ ~eng.isLoading
    /\ eng' = LoadStarted(eng)
    /\ loads' = [loads EXCEPT !.current = @ + 1]
    /\ UNCHANGED <<route, queries, timers, formVars>>

\* Engines: the request of loadEngines settles while its page is mounted; the
\* response is one of lists, or the transport's rejection
LoadSettleFrom(lists) ==
    /\ route = "Engines"
    /\ loads.current > 0
    /\ \/ \E list \in lists :
             /\ eng' = LoadSettled(eng, getEngines(HttpOk(list)))
             /\ loads' = [loads EXCEPT !.current = @ - 1, !.lastAttempts = 1,
                                       !.lastOutcome = "ok"]
       \/ \E e \in TransportErrors :
             /\ eng' = LoadSettled(eng, getEngines(HttpFail(e)))
             /\ loads' = [loads EXCEPT !.current = @ - 1, !.lastAttempts = 1,
                                       !.lastOutcome = "failed"]
    /\ UNCHANGED <<route, queries, timers, formVars>>

LoadSettle == LoadSettleFrom(EngineLists)

\* a mutant of OrphanSettle: the settled request updates the state of the
\* Engines page that is mounted now, or that a later mount will show
OrphanSettleUpdating ==
    /\ loads.orphans > 0
    /\ loads' = [loads EXCEPT !.orphans = @ - 1]
    /\ \E list \in EngineLists : eng' = LoadSettled(eng, getEngines(HttpOk(list)))
    /\ UNCHANGED <<route, queries, timers, formVars>>

\* a request of an Engines page that has unmounted settles: its state updates
\* reach no mounted component
OrphanSettle ==
    /\ loads.orphans > 0
    /\ loads' = [loads EXCEPT !.orphans = @ - 1]
    /\ UNCHANGED <<route, queries, timers, eng, formVars>>

\* a mutant of handleSave: no timer is set
handleSaveNoTimer ==
    /\ route = "Settings"
    /\ ~SaveButton(settings).disabled
    /\ settings' = [settings EXCEPT !.isSaving = TRUE]
    /\ UNCHANGED <<route, queries, timers, eng, loads, analytics, timeouts>>

\* Settings: the save button calls handleSave: setIsSaving(true) and a timer
handleSave ==
    /\ route = "Settings"
    /\ ~SaveButton(settings).disabled
    /\ settings' = [settings EXCEPT !.isSaving = TRUE]
    /\ timeouts' = [timeouts EXCEPT !.save = Append(@, SaveDelay)]
    /\ UNCHANGED <<route, queries, timers, eng, loads, analytics>>

\* the timer of handleSave runs while Settings is mounted: setIsSaving(false)
SaveTimeout ==
    /\ route = "Settings"
    /\ timeouts.save # <<>>
    /\ settings' = [settings EXCEPT !.isSaving = FALSE]
    /\ timeouts' = [timeouts EXCEPT !.save = Tail(@)]
    /\ UNCHANGED <<route, queries, timers, eng, loads, analytics>>

\* Analytics: the Refresh button calls handleRefresh: setIsLoading(true) and a timer
AnalyticsRefresh ==
    /\ route = "Analytics"
    /\ ~RefreshButton(analytics).disabled
    /\ analytics' = [analytics EXCEPT !.isLoading = TRUE]
    /\ timeouts' = [timeouts EXCEPT !.refresh = Append(@, RefreshDelay)]
    /\ UNCHANGED <<route, queries, timers, eng, loads, settings>>

\* the timer of handleRefresh runs while Analytics is mounted: setIsLoading(false)
RefreshTimeout ==
    /\ route = "Analytics"
    /\ timeouts.refresh # <<>>
    /\ analytics' = [analytics EXCEPT !.isLoading = FALSE]
    /\ timeouts' = [timeouts EXCEPT !.refresh = Tail(@)]
    /\ UNCHANGED <<route, queries, timers, eng, loads, settings>>

\* a timer of a Settings or Analytics that has unmounted runs: its state
\* update reaches no mounted component
OrphanTimeout ==
    /\ timeouts.orphans > 0
    /\ timeouts' = [timeouts EXCEPT !.orphans = @ - 1]
    /\ UNCHANGED <<route, queries, timers, eng, loads, settings, analytics>>

ApiIdle == apiCall = None /\ apiResult = None
CompIdle == props = None /\ view = None

Init == AppInit /\ ApiIdle /\ CompIdle

Next ==
    \/ \E p \in Pages : Navigate(p) /\ UNCHANGED <<apiVars, compVars>>
    \/ \E k \in QueryKeys : TimerFire(k) /\ UNCHANGED <<apiVars, compVars>>
    \/ EnginesQuerySettle /\ UNCHANGED <<apiVars, compVars>>
    \/ SummaryQuerySettle /\ UNCHANGED <<apiVars, compVars>>
    \/ \E k \in QueryKeys : RetryDelayElapsed(k) /\ UNCHANGED <<apiVars, compVars>>
    \/ \E k \in QueryKeys : CollectGarbage(k) /\ UNCHANGED <<apiVars, compVars>>
    \/ Refresh /\ UNCHANGED <<apiVars, compVars>>
    \/ LoadSettle /\ UNCHANGED <<apiVars, compVars>>
    \/ OrphanSettle /\ UNCHANGED <<apiVars, compVars>>
    \/ handleSave /\ UNCHANGED <<apiVars, compVars>>
    \/ SaveTimeout /\ UNCHANGED <<apiVars, compVars>>
    \/ AnalyticsRefresh /\ UNCHANGED <<apiVars, compVars>>
    \/ RefreshTimeout /\ UNCHANGED <<apiVars, compVars>>
    \/ OrphanTimeout /\ UNCHANGED <<apiVars, compVars>>

Spec == Init /\ [][Next]_vars


(***************************************************************************)
(* What the pages render from their state.                                 *)
(***************************************************************************)
\* Dashboard: data: engines = [] defaults a query without data to the empty
\* list; summaryComputed and enginesFetching feed SummaryCards and EngineGrid
Dashboard(data, enginesFetching) ==
    LET engines == IF data = None THEN <<>> ELSE data[1]
    IN [summaryData |-> summaryComputed(engines),
        summary |-> SummaryCards(Some(summaryComputed(engines)), enginesFetching),
        grid |-> EngineGrid(Some(engines), enginesFetching),
        alerts |-> AlertsPanel(Some(engines)),
        chart |-> RULChart(Some(engines))]

\* the Dashboard as the running application shows it
DashboardView ==
    Dashboard(queries["engines"].data, isFetching(queries["engines"]))

\* a mutant of Analytics: the server's summary is trusted for the total and
\* the critical count once it has arrived
AnalyticsTrustsSummary(data, enginesFetching, summary, summaryFetching) ==
    LET engines == IF data = None THEN <<>> ELSE data[1]
        IsCritical(e) == e.status = "critical"
    IN [totalEngines |-> IF summary = None THEN Len(engines) ELSE summary[1].total_engines,
        avgRUL |-> 0,
        criticalCount |-> IF summary = None THEN Count(engines, IsCritical)
                          ELSE summary[1].critical_engines,
        avgConfidence |-> 0,
        live |-> IF enginesFetching \/ summaryFetching THEN "Updating..." ELSE "Live"]

\* Analytics: totalEngines, avgRUL, avgConfidence, criticalCount from the
\* 'engines' query alone (engines may be undefined); the 'dashboard-summary'
\* query contributes only its isFetching to the Updating... / Live label.
\* avgRUL is held in tenths, as toFixed(1) shows it, avgConfidence in tenths of
\* a percent, as (avgConfidence * 100).toFixed(1) shows it.
Analytics(data, enginesFetching, summary, summaryFetching) ==
    LET engines == IF data = None THEN <<>> ELSE data[1]
        n == Len(engines)
        IsCritical(e) == e.status = "critical"
        RECURSIVE SumRul(_), SumConf(_)
        SumRul(s) == IF s = <<>> THEN 0 ELSE Head(s).current_rul + SumRul(Tail(s))
        SumConf(s) == IF s = <<>> THEN 0 ELSE Head(s).confidence + SumConf(Tail(s))
    IN [totalEngines |-> n,
        avgRUL |-> IF n > 0 THEN (20 * SumRul(engines) + n) \div (2 * n) ELSE 0,
        criticalCount |-> Count(engines, IsCritical),
        avgConfidence |-> IF n > 0 THEN (20 * SumConf(engines) + n) \div (2 * n) ELSE 0,
        live |-> IF enginesFetching \/ summaryFetching THEN "Updating..." ELSE "Live"]

\* Analytics.processEngineData: the bucket an engine's current_rul is counted in
rulBucket(rul) ==
    IF rul <= 50 THEN 1
    ELSE IF rul <= 100 THEN 2
    ELSE IF rul <= 150 THEN 3
    ELSE IF rul <= 200 THEN 4
    ELSE 5

rulRangeLabels == <<"0-50", "51-100", "101-150", "151-200", "200+">>

\* engines.forEach(engine => ... rulRanges[k].count++)
RECURSIVE rulRanges(_)
rulRanges(engines) ==
    IF engines = <<>>
    THEN [b \in 1..5 |-> [range |-> rulRangeLabels[b], count |-> 0]]
    ELSE LET acc == rulRanges(SubSeq(engines, 1, Len(engines) - 1))
             engine == engines[Len(engines)]
         IN [acc EXCEPT ![rulBucket(engine.current_rul)].count = @ + 1]

\* engines.reduce((acc, engine) => { acc[engine.model] = (acc[engine.model] || 0) + 1 }, {}):
\* the properties of acc in the order they were created, as Object.entries
\* lists them
RECURSIVE engineTypes(_)
engineTypes(engines) ==
    IF engines = <<>>
    THEN <<>>
    ELSE LET acc == engineTypes(SubSeq(engines, 1, Len(engines) - 1))
             engine == engines[Len(engines)]
             at == { j \in 1..Len(acc) : acc[j].name = engine.model }
         IN IF at = {}
            THEN Append(acc, [name |-> engine.model, value |-> 0 + 1])
            ELSE [j \in 1..Len(acc) |->
                    IF j \in at THEN [acc[j] EXCEPT !.value = @ + 1] ELSE acc[j]]

\* engines.reduce((acc, engine) => { acc[engine.status] = (acc[engine.status] || 0) + 1 },
\*                { healthy: 0, warning: 0, critical: 0 })
RECURSIVE statusCounts(_)
statusCounts(engines) ==
    IF engines = <<>>
    THEN [healthy |-> 0, warning |-> 0, critical |-> 0]
    ELSE LET acc == statusCounts(SubSeq(engines, 1, Len(engines) - 1))
             engine == engines[Len(engines)]
         IN Assign(acc, engine.status,
                   (IF engine.status \in DOMAIN acc THEN acc[engine.status] ELSE 0) + 1)

TypeColors == <<"#3b82f6", "#10b981", "#f59e0b", "#ef4444", "#8b5cf6">>

\* Analytics.processEngineData(engines): the data of the three charts
processEngineData(engines) ==
    LET types == engineTypes(engines)
        counts == statusCounts(engines)
    IN [rulDistribution |-> rulRanges(engines),
        engineTypeData |-> [j \in 1..Len(types) |->
                              [name |-> types[j].name, value |-> types[j].value,
                               color |-> TypeColors[((j - 1) % 5) + 1]]],
        statusData |-> << [name |-> "Healthy", value |-> counts.healthy, color |-> "#10b981"],
                          [name |-> "Warning", value |-> counts.warning, color |-> "#f59e0b"],
                          [name |-> "Critical", value |-> counts.critical, color |-> "#ef4444"] >>]

\* Analytics: processEngineData(engines || [])
AnalyticsCharts(data) == processEngineData(IF data = None THEN <<>> ELSE data[1])

\* the Analytics page as the running application shows it
AnalyticsView ==
    Analytics(queries["engines"].data, isFetching(queries["engines"]),
              queries["dashboard-summary"].data, isFetching(queries["dashboard-summary"]))

\* a mutant of filteredEngines: the search compares without toLowerCase
filteredEnginesCaseSensitive(st) ==
    LET Matches(engine) ==
            LET matchesSearch ==
                    \/ includes(engine.name, st.searchTerm)
                    \/ includes(engine.model, st.searchTerm)
                matchesStatus ==
                    st.statusFilter = "all" \/ engine.status = st.statusFilter
            IN matchesSearch /\ matchesStatus
    IN SelectSeq(st.engines, Matches)

\* a mutant of filteredEngines: the two tests joined by || instead of &&
filteredEnginesEither(st) ==
    LET Matches(engine) ==
            \/ includes(toLowerCase(engine.name), toLowerCase(st.searchTerm))
            \/ includes(toLowerCase(engine.model), toLowerCase(st.searchTerm))
            \/ st.statusFilter = "all"
            \/ engine.status = st.statusFilter
    IN SelectSeq(st.engines, Matches)

\* Engines: filteredEngines
filteredEngines(st) ==
    LET Matches(engine) ==
            LET matchesSearch ==
                    \/ includes(toLowerCase(engine.name), toLowerCase(st.searchTerm))
                    \/ includes(toLowerCase(engine.model), toLowerCase(st.searchTerm))
                matchesStatus ==
                    st.statusFilter = "all" \/ engine.status = st.statusFilter
            IN matchesSearch /\ matchesStatus
    IN SelectSeq(st.engines, Matches)

\* a mutant of EnginesStats: the summary stats count the displayed engines
EnginesStatsDisplayed(st) ==
    LET shown == filteredEngines(st)
        IsHealthy(e) == e.status = "healthy"
        IsWarning(e) == e.status = "warning"
        IsCritical(e) == e.status = "critical"
    IN [total |-> Len(shown),
        healthy |-> Count(shown, IsHealthy),
        warning |-> Count(shown, IsWarning),
        critical |-> Count(shown, IsCritical)]

\* Engines: the four summary stats: engines.length and
\* engines.filter(e => e.status === ...).length
EnginesStats(st) ==
    LET IsHealthy(e) == e.status = "healthy"
        IsWarning(e) == e.status = "warning"
        IsCritical(e) == e.status = "critical"
    IN [total |-> Len(st.engines),
        healthy |-> Count(st.engines, IsHealthy),
        warning |-> Count(st.engines, IsWarning),
        critical |-> Count(st.engines, IsCritical)]

\* Engines: the engine grid, the "No engines found matching your criteria."
\* note, and the four summary stats over the loaded list
EnginesView ==
    LET shown == filteredEngines(eng)
    IN [cards |-> shown,
        noneFound |-> Len(shown) = 0,
        refreshDisabled |-> eng.isLoading,
        stats |-> EnginesStats(eng)]

\* obj[key]: undefined when the object has no such property
Get(obj, key) == IF key \in DOMAIN obj THEN Some(obj[key]) ELSE None

\* value.toLocaleString() of a number below a million: its digits grouped in
\* thousands; reading toLocaleString of undefined throws a TypeError
NumberToLocaleString(value) ==
    IF value = None
    THEN Throw(Err("TypeError", "",
                   <<"Cannot read properties of undefined (reading 'toLocaleString')">>))
    ELSE Return(IF value[1] < 1000 THEN <<value[1]>>
                ELSE <<value[1] \div 1000, value[1] % 1000>>)

\* Engines: EngineDetailsModal: null unless showDetails and an engine is
\* selected; else the modal, whose maintenance column calls toLocaleString
\* on selectedEngine.flightHours and selectedEngine.cycles
EngineDetailsModal(st) ==
    IF ~st.showDetails \/ st.selectedEngine = None
    THEN [kind |-> "hidden", title |-> <<>>, flightHours |-> <<>>, cycles |-> <<>>,
          error |-> Err("", "", <<>>)]
    ELSE LET selectedEngine == st.selectedEngine[1]
             flightHours == NumberToLocaleString(Get(selectedEngine, "flightHours"))
             cycles == NumberToLocaleString(Get(selectedEngine, "cycles"))
         IN IF flightHours.kind = "throw"
            THEN [kind |-> "error", title |-> <<>>, flightHours |-> <<>>, cycles |-> <<>>,
                  error |-> flightHours.error]
            ELSE IF cycles.kind = "throw"
            THEN [kind |-> "error", title |-> <<>>, flightHours |-> <<>>, cycles |-> <<>>,
                  error |-> cycles.error]
            ELSE [kind |-> "modal", title |-> selectedEngine.name,
                  flightHours |-> flightHours.value, cycles |-> cycles.value,
                  error |-> Err("", "", <<>>)]

(***************************************************************************)
(* SpecEngines: the Engines page on its own, from its mount on.            *)
(***************************************************************************)
\* lists in which the engine at position i has id i
Numbered(shapes) == [i \in 1..Len(shapes) |-> [shapes[i] EXCEPT !.id = i]]

\* the engines the Engines page is loaded with
EnginesFleet ==
    { Engine(0, <<"A", "b">>, <<"x">>, "healthy", 250, 95, TRUE),
      Engine(0, <<"b", "a">>, <<"A">>, "warning", 80, 65, TRUE),
      Engine(0, <<"x">>, <<"a", "B">>, "critical", 20, 60, TRUE),
      Engine(0, <<"a">>, <<"b">>, "maintenance", 120, 80, FALSE) }

EnginesFleetLists == { Numbered(shapes) : shapes \in SeqUpTo(EnginesFleet, MaxFleet) }

\* what the user types into the search box
SearchTerms == { <<>>, <<"a">>, <<"B">>, <<"a", "b">>, <<"z">> }

\* the options of the status select
StatusFilters == {"all", "healthy", "warning", "critical"}

\* the search box's onChange: setSearchTerm(e.target.value)
SetSearchTerm(term) ==
    /\ route = "Engines"
    /\ term # eng.searchTerm
    /\ eng' = [eng EXCEPT !.searchTerm = term]
    /\ UNCHANGED <<route, queries, timers, loads, formVars>>

\* the status select's onChange: setStatusFilter(e.target.value)
SetStatusFilter(filter) ==
    /\ route = "Engines"
    /\ filter # eng.statusFilter
    /\ eng' = [eng EXCEPT !.statusFilter = filter]
    /\ UNCHANGED <<route, queries, timers, loads, formVars>>

InitEngines ==
    /\ route = "Engines"
    /\ queries = [k \in QueryKeys |-> NewQuery]
    /\ timers = MountTimers("Engines")
    /\ eng = MountEngines("Engines")
    /\ loads = [NoLoads EXCEPT !.current = 1]
    /\ settings = SettingsInitial
    /\ analytics = AnalyticsInitial
    /\ timeouts = NoTimeouts
    /\ ApiIdle
    /\ CompIdle

NextEngines ==
    \/ Refresh /\ UNCHANGED <<apiVars, compVars>>
    \/ LoadSettleFrom(EnginesFleetLists) /\ UNCHANGED <<apiVars, compVars>>
    \/ \E term \in SearchTerms : SetSearchTerm(term) /\ UNCHANGED <<apiVars, compVars>>
    \/ \E filter \in StatusFilters : SetStatusFilter(filter) /\ UNCHANGED <<apiVars, compVars>>

SpecEngines == InitEngines /\ [][NextEngines]_vars

(***************************************************************************)
(* SpecDetails: the Engines page with its details modal.  An error thrown  *)
(* while rendering takes the page down: nothing can be pressed afterwards. *)
(***************************************************************************)
\* an engine record that carries the fields the modal reads besides the
\* Engine fields
WithDetails(engine) ==
    engine @@ [serialNumber |-> <<"S", "1">>, aircraft |-> <<"B">>, location |-> <<"x">>,
               currentRUL |-> engine.current_rul, efficiency |-> 90,
               lastMaintenance |-> <<"a">>, nextMaintenance |-> <<"b">>,
               flightHours |-> 12500, cycles |-> 980]

\* the engines the page is loaded with: records with the Engine fields only,
\* and records with the details
DetailsFleet == EnginesFleet \cup { WithDetails(engine) : engine \in EnginesFleet }

DetailsFleetLists == { Numbered(shapes) : shapes \in SeqUpTo(DetailsFleet, MaxShown) }

\* the page is rendered: rendering the modal did not throw
DetailsAlive == EngineDetailsModal(eng).kind # "error"

\* View Details on the i-th displayed card: setSelectedEngine(engine); setShowDetails(true)
ViewDetails(i) ==
    /\ route = "Engines"
    /\ EngineDetailsModal(eng).kind = "hidden"
    /\ i \in 1..Len(filteredEngines(eng))
    /\ eng' = [eng EXCEPT !.selectedEngine = Some(filteredEngines(eng)[i]),
                          !.showDetails = TRUE]
    /\ UNCHANGED <<route, queries, timers, loads, formVars>>

\* the modal's close button: setShowDetails(false)
CloseDetails ==
    /\ route = "Engines"
    /\ EngineDetailsModal(eng).kind = "modal"
    /\ eng' = [eng EXCEPT !.showDetails = FALSE]
    /\ UNCHANGED <<route, queries, timers, loads, formVars>>

NextDetails ==
    \/ DetailsAlive /\ LoadSettleFrom(DetailsFleetLists) /\ UNCHANGED <<apiVars, compVars>>
    \/ DetailsAlive /\ Refresh /\ UNCHANGED <<apiVars, compVars>>
    \/ \E filter \in StatusFilters :
          DetailsAlive /\ SetStatusFilter(filter) /\ UNCHANGED <<apiVars, compVars>>
    \/ \E i \in 1..MaxShown :
          DetailsAlive /\ ViewDetails(i) /\ UNCHANGED <<apiVars, compVars>>
    \/ CloseDetails /\ UNCHANGED <<apiVars, compVars>>

SpecDetails == InitEngines /\ [][NextDetails]_vars

(***************************************************************************)
(* SpecDashboard: the Dashboard rendered from one state of its query.      *)
(* SpecCards: SummaryCards rendered from one pair of props.                *)
(***************************************************************************)
\* the engines the Dashboard is rendered with
DashboardFleet ==
    { Engine(0, <<"A">>, <<"x">>, "healthy", 250, 95, a) : a \in BOOLEAN }
    \cup { Engine(0, <<"b">>, <<"x">>, "warning", 80, 65, a) : a \in BOOLEAN }
    \cup { Engine(0, <<"c">>, <<"y">>, "critical", 20, 60, a) : a \in BOOLEAN }
    \cup { Engine(0, <<"d">>, <<"y">>, "maintenance", 120, 80, a) : a \in BOOLEAN }

DashboardFleetLists == { Numbered(shapes) : shapes \in SeqUpTo(DashboardFleet, MaxFleet) }

RenderDashboard ==
    /\ view = None
    /\ view' = Some(Dashboard(props[1].data, props[1].isFetching))
    /\ UNCHANGED props

InitDashboard ==
    /\ AppIdle
    /\ ApiIdle
    /\ view = None
    /\ \E data \in {None} \cup { Some(list) : list \in DashboardFleetLists },
          fetching \in BOOLEAN :
          props = Some([data |-> data, isFetching |-> fetching])

NextDashboard == RenderDashboard /\ UNCHANGED <<appVars, apiVars>>

SpecDashboard == InitDashboard /\ [][NextDashboard]_vars

\* the summaries SummaryCards is rendered with
CardSummaries ==
    UNION { { Summary(total, healthy, warning, critical, active, 0) :
                healthy \in 0..MaxTotal, warning \in 0..MaxTotal,
                critical \in 0..MaxTotal, active \in {0, total} } :
            total \in 0..MaxTotal }

RenderCards ==
    /\ view = None
    /\ view' = Some(SummaryCards(props[1].data, props[1].isLoading))
    /\ UNCHANGED props

InitCards ==
    /\ AppIdle
    /\ ApiIdle
    /\ view = None
    /\ \E data \in {None} \cup { Some(d) : d \in CardSummaries }, loading \in BOOLEAN :
          props = Some([data |-> data, isLoading |-> loading])

NextCards == RenderCards /\ UNCHANGED <<appVars, apiVars>>

SpecCards == InitCards /\ [][NextCards]_vars

(***************************************************************************)
(* SpecAlerts: AlertsPanel rendered from one engines prop.                 *)
(* SpecPolls: AlertsPanel re-rendered as the Dashboard's polls supply one  *)
(* engine list after another.                                              *)
(***************************************************************************)
\* the engines AlertsPanel is rendered with: every status with a confidence
\* below, at and above 0.7
AlertsFleet ==
    { Engine(0, <<"A">>, <<"x">>, status, 40, conf, TRUE) :
        status \in Statuses, conf \in {69, 70, 95} }

AlertsFleetLists == { Numbered(shapes) : shapes \in SeqUpTo(AlertsFleet, MaxFleet) }

RenderAlerts ==
    /\ view = None
    /\ view' = Some(AlertsPanel(props[1].engines))
    /\ UNCHANGED props

InitAlerts ==
    /\ AppIdle
    /\ ApiIdle
    /\ view = None
    /\ \E engines \in {None} \cup { Some(list) : list \in AlertsFleetLists } :
          props = Some([engines |-> engines])

NextAlerts == RenderAlerts /\ UNCHANGED <<appVars, apiVars>>

SpecAlerts == InitAlerts /\ [][NextAlerts]_vars

\* the engine lists one poll after another delivers
PolledLists == { Numbered(shapes) : shapes \in SeqUpTo(AlertsFleet, MaxEngines) }

\* a mutant of Repoll: the new list's alerts are added to the ones on display
RepollAccumulating(list) ==
    /\ props[1].engines # Some(list)
    /\ props' = Some([engines |-> Some(list), before |-> props[1].engines])
    /\ view' = Some([kind |-> "alerts",
                     alerts |-> view[1].alerts \o AlertsPanel(Some(list)).alerts])

\* a poll settles with a new list: the Dashboard re-renders and AlertsPanel
\* is called with the new engines prop (before is the prop it replaces)
Repoll(list) ==
    /\ props[1].engines # Some(list)
    /\ props' = Some([engines |-> Some(list), before |-> props[1].engines])
    /\ view' = Some(AlertsPanel(Some(list)))

\* the first render, before any data has arrived
InitPolls ==
    /\ AppIdle
    /\ ApiIdle
    /\ props = Some([engines |-> None, before |-> None])
    /\ view = Some(AlertsPanel(None))

NextPolls == \E list \in PolledLists : Repoll(list) /\ UNCHANGED <<appVars, apiVars>>

SpecPolls == InitPolls /\ [][NextPolls]_vars

(***************************************************************************)
(* SpecCard: one EngineCard rendered from one engine.                      *)
(***************************************************************************)
\* the RUL values a card is rendered with
RulValues == (0 - RulMargin)..(AssumedMaxRul + RulMargin)

\* the engines a card is rendered with
CardEngines ==
    { Engine(1, <<"A">>, <<"x">>, status, rul, 95, TRUE) :
        status \in {"healthy", "critical"}, rul \in RulValues }

RenderCard ==
    /\ view = None
    /\ view' = Some(EngineCard(props[1].engine, props[1].index))
    /\ UNCHANGED props

InitCard ==
    /\ AppIdle
    /\ ApiIdle
    /\ view = None
    /\ \E engine \in CardEngines : props = Some([engine |-> engine, index |-> 0])

NextCard == RenderCard /\ UNCHANGED <<appVars, apiVars>>

SpecCard == InitCard /\ [][NextCard]_vars

(***************************************************************************)
(* SpecChart: RULChart rendered from one engines prop, at one time of day, *)
(* with one source of random numbers.                                      *)
(***************************************************************************)
\* the engines the chart is rendered with: two engines of one name, an engine
\* named "timestamp" and one named "time" among them
ChartFleet ==
    { Engine(0, <<"A">>, <<"x">>, "healthy", 250, 95, TRUE),
      Engine(0, <<"B">>, <<"x">>, "warning", 3, 65, TRUE),
      Engine(0, <<"A">>, <<"y">>, "critical", 20, 60, TRUE),
      Engine(0, TimestampKey, <<"y">>, "maintenance", 120, 80, TRUE),
      Engine(0, TimeKey, <<"y">>, "critical", 0, 60, TRUE) }

ChartFleetLists == { Numbered(shapes) : shapes \in SeqUpTo(ChartFleet, MaxChart) }

\* Date.now(), in milliseconds since the midnight before last
NowValues == { 24 * HourMs, 123456789 }

\* the sources of random numbers
RandomSources == [seed : 0..(RandomSteps - 1), stride : {0, 7}]

RenderChart ==
    /\ view = None
    /\ view' = Some([chart |-> RULChart(props[1].engines),
                     chartData |-> chartData(props[1].engines, props[1].now, props[1].random)])
    /\ UNCHANGED props

InitChart ==
    /\ AppIdle
    /\ ApiIdle
    /\ view = None
    /\ \E engines \in {None} \cup { Some(list) : list \in ChartFleetLists },
          now \in NowValues, random \in RandomSources :
          props = Some([engines |-> engines, now |-> now, random |-> random])

NextChart == RenderChart /\ UNCHANGED <<appVars, apiVars>>

SpecChart == InitChart /\ [][NextChart]_vars

(***************************************************************************)
(* SpecSettings: the Settings page, or Analytics, mounted for good: the    *)
(* user edits settings and presses the buttons, Analytics' queries poll,   *)
(* and a timer that was set does run in the end.                           *)
(***************************************************************************)
NotificationKeys ==
    {"emailAlerts", "smsAlerts", "pushNotifications", "criticalOnly",
     "maintenanceReminders", "weeklyReports"}

\* a Switch of the notifications tab: setNotifications({...notifications, [key]: checked})
SetNotification(key, checked) ==
    /\ route = "Settings"
    /\ settings.notifications[key] # checked
    /\ settings' = [settings EXCEPT !.notifications[key] = checked]
    /\ UNCHANGED <<route, queries, timers, eng, loads, analytics, timeouts>>

\* the auto-retrain Switch: setModelSettings({...modelSettings, autoRetrain: checked})
SetAutoRetrain(checked) ==
    /\ route = "Settings"
    /\ settings.modelSettings.autoRetrain # checked
    /\ settings' = [settings EXCEPT !.modelSettings.autoRetrain = checked]
    /\ UNCHANGED <<route, queries, timers, eng, loads, analytics, timeouts>>

\* the refresh interval select: setSystemSettings({...systemSettings, refreshInterval: parseInt(value)})
SetRefreshInterval(seconds) ==
    /\ route = "Settings"
    /\ settings.systemSettings.refreshInterval # seconds
    /\ settings' = [settings EXCEPT !.systemSettings.refreshInterval = seconds]
    /\ UNCHANGED <<route, queries, timers, eng, loads, analytics, timeouts>>

\* Analytics' time range select: setSelectedTimeRange(e.target.value)
SetSelectedTimeRange(range) ==
    /\ route = "Analytics"
    /\ analytics.selectedTimeRange # range
    /\ analytics' = [analytics EXCEPT !.selectedTimeRange = range]
    /\ UNCHANGED <<route, queries, timers, eng, loads, settings, timeouts>>

InitSettings ==
    /\ AppInit
    /\ route \in {"Settings", "Analytics"}
    /\ ApiIdle
    /\ CompIdle

NextSettings ==
    \/ handleSave /\ UNCHANGED <<apiVars, compVars>>
    \/ SaveTimeout /\ UNCHANGED <<apiVars, compVars>>
    \/ AnalyticsRefresh /\ UNCHANGED <<apiVars, compVars>>
    \/ RefreshTimeout /\ UNCHANGED <<apiVars, compVars>>
    \/ \E key \in NotificationKeys, checked \in BOOLEAN :
          SetNotification(key, checked) /\ UNCHANGED <<apiVars, compVars>>
    \/ \E checked \in BOOLEAN : SetAutoRetrain(checked) /\ UNCHANGED <<apiVars, compVars>>
    \/ \E seconds \in {10, 30, 60} : SetRefreshInterval(seconds) /\ UNCHANGED <<apiVars, compVars>>
    \/ \E range \in {"1M", "3M", "6M", "1Y"} :
          SetSelectedTimeRange(range) /\ UNCHANGED <<apiVars, compVars>>
    \/ \E k \in QueryKeys : TimerFire(k) /\ UNCHANGED <<apiVars, compVars>>
    \/ EnginesQuerySettle /\ UNCHANGED <<apiVars, compVars>>
    \/ SummaryQuerySettle /\ UNCHANGED <<apiVars, compVars>>
    \/ \E k \in QueryKeys : RetryDelayElapsed(k) /\ UNCHANGED <<apiVars, compVars>>

\* a timer that was set runs once its delay has passed
SpecSettings ==
    /\ InitSettings
    /\ [][NextSettings]_vars
    /\ WF_vars(SaveTimeout /\ UNCHANGED <<apiVars, compVars>>)
    /\ WF_vars(RefreshTimeout /\ UNCHANGED <<apiVars, compVars>>)

(***************************************************************************)
(* SpecProcess: the charts of Analytics computed from one engine list.     *)
(***************************************************************************)
MaxProcessed == 2

\* the values of current_rul at and beside the bucket limits, and one below 0
RulEdges == {0 - 5, 0, 50, 51, 100, 101, 150, 151, 200, 201}

ProcessFleet ==
    { Engine(0, <<"A">>, model, status, rul, 95, TRUE) :
        model \in {<<"x">>, <<"Y">>}, status \in Statuses, rul \in RulEdges }

ProcessFleetLists == { Numbered(shapes) : shapes \in SeqUpTo(ProcessFleet, MaxProcessed) }

RenderCharts ==
    /\ view = None
    /\ view' = Some(AnalyticsCharts(props[1].engines))
    /\ UNCHANGED props

InitProcess ==
    /\ AppIdle
    /\ ApiIdle
    /\ view = None
    /\ \E engines \in {None} \cup { Some(list) : list \in ProcessFleetLists } :
          props = Some([engines |-> engines])

NextProcess == RenderCharts /\ UNCHANGED <<appVars, apiVars>>

SpecProcess == InitProcess /\ [][NextProcess]_vars

(***************************************************************************)
(* SpecTwoRuns: two runs of the application that received the same engine  *)
(* list and each its own answer (or none) to GET /api/v1/dashboard/summary,*)
(* rendered side by side.                                                  *)
(***************************************************************************)
\* the aggregate numbers a run shows: the Dashboard's summary cards and the
\* Analytics stat cards
Aggregates(data, enginesFetching, summary, summaryFetching) ==
    LET a == Analytics(data, enginesFetching, summary, summaryFetching)
    IN [cards |-> Dashboard(data, enginesFetching).summary,
        totalEngines |-> a.totalEngines, avgRUL |-> a.avgRUL,
        criticalCount |-> a.criticalCount, avgConfidence |-> a.avgConfidence]

\* what the 'dashboard-summary' query of a run may hold: nothing (not yet
\* answered, or failed) or a summary, while fetching or not
SummaryStates ==
    { [data |-> d, fetching |-> f] :
        d \in {None} \cup { Some(x) : x \in BackendSummaries }, f \in BOOLEAN }

RenderRuns ==
    /\ view = None
    /\ view' = Some([r \in {1, 2} |->
                       Aggregates(props[1].data, props[1].isFetching,
                                  props[1].summary[r].data, props[1].summary[r].fetching)])
    /\ UNCHANGED props

InitTwoRuns ==
    /\ AppIdle
    /\ ApiIdle
    /\ view = None
    /\ \E data \in {None} \cup { Some(list) : list \in DashboardFleetLists },
          fetching \in BOOLEAN, s1 \in SummaryStates, s2 \in SummaryStates :
          props = Some([data |-> data, isFetching |-> fetching, summary |-> <<s1, s2>>])

NextTwoRuns == RenderRuns /\ UNCHANGED <<appVars, apiVars>>

SpecTwoRuns == InitTwoRuns /\ [][NextTwoRuns]_vars

(***************************************************************************)
(* SpecApi: the api functions called directly, one call at a time.         *)
(***************************************************************************)
Call(fn, id, sensors) == [fn |-> fn, engine_id |-> id, sensor_data |-> sensors]

ApiCalls ==
    { Call("getDashboardSummary", 0, <<>>), Call("getEngines", 0, <<>>),
      Call("healthCheck", 0, <<>>) }
    \cup { Call("getEngine", id, <<>>) : id \in 1..MaxId }
    \cup { Call("predictRUL", id, sd) : id \in 1..MaxId, sd \in {<<>>, <<1, 2>>} }

\* the bodies GET /health may carry
HealthBodies == {[status |-> "healthy"], [status |-> "degraded"]}

\* the bodies POST /predict may carry for a request
Predictions(call) ==
    { [engine_id |-> call.engine_id, predicted_rul |-> rul, confidence |-> 90,
       status |-> st, timestamp |-> 0] : rul \in {20, 250}, st \in {"healthy", "critical"} }

\* how the api function of call settles on the HTTP outcome resp
ApiSettled(call, resp) ==
    CASE call.fn = "getDashboardSummary" -> getDashboardSummary(resp)
      [] call.fn = "getEngines" -> getEngines(resp)
      [] call.fn = "getEngine" -> getEngine(call.engine_id, resp)
      [] call.fn = "predictRUL" ->
            predictRUL([engine_id |-> call.engine_id, sensor_data |-> call.sensor_data], resp)
      [] call.fn = "healthCheck" -> healthCheck(resp)

Settle(resp) ==
    /\ apiResult' = Some([call |-> apiCall[1], resp |-> resp,
                          settled |-> ApiSettled(apiCall[1], resp)])
    /\ apiCall' = None

\* a caller invokes an api function: its HTTP request goes out
ApiInvoke(call) ==
    /\ apiCall = None
    /\ apiCall' = Some(call)
    /\ UNCHANGED apiResult

\* the HTTP request succeeds with a body of the endpoint's kind
ApiRespond ==
    /\ apiCall # None
    /\ \/ apiCall[1].fn = "getDashboardSummary" /\ \E b \in BackendSummaries : Settle(HttpOk(b))
       \/ apiCall[1].fn = "getEngines" /\ \E b \in EngineLists : Settle(HttpOk(b))
       \/ apiCall[1].fn = "getEngine" /\ \E b \in BackendEngines : Settle(HttpOk(b))
       \/ apiCall[1].fn = "predictRUL" /\ \E b \in Predictions(apiCall[1]) : Settle(HttpOk(b))
       \/ apiCall[1].fn = "healthCheck" /\ \E b \in HealthBodies : Settle(HttpOk(b))

\* the HTTP request fails
ApiReject ==
    /\ apiCall # None
    /\ \E e \in TransportErrors : Settle(HttpFail(e))

InitApi == AppIdle /\ ApiIdle /\ CompIdle

NextApi ==
    \/ \E call \in ApiCalls : ApiInvoke(call) /\ UNCHANGED <<appVars, compVars>>
    \/ ApiRespond /\ UNCHANGED <<appVars, compVars>>
    \/ ApiReject /\ UNCHANGED <<appVars, compVars>>

SpecApi == InitApi /\ [][NextApi]_vars


(***************************************************************************)
(* Properties of the HTTP client (checked under SpecApi).                  *)
(***************************************************************************)
LastCall == apiResult[1].call
LastResp == apiResult[1].resp
LastSettled == apiResult[1].settled

\* C4: when the HTTP request behind getDashboardSummary, getEngines, getEngine
\* or predictRUL fails, the function throws a fresh generic Error with a fixed
\* message (the same whatever the transport error was, and not the transport
\* error itself) and returns no value.
C4_FailureThrowsGenericError ==
    (/\ apiResult # None
     /\ LastCall.fn \in {"getDashboardSummary", "getEngines", "getEngine", "predictRUL"}
     /\ ~LastResp.ok)
    => /\ LastSettled.kind = "throw"
       /\ LastSettled.value = None
       /\ LastSettled.error.name = "Error"
       /\ LastSettled.error # LastResp.error
       /\ \A e \in TransportErrors :
             ApiSettled(LastCall, HttpFail(e)).error = LastSettled.error

\* C5: healthCheck never throws: on success it returns the response body, on
\* any failure of the request it returns {status: 'offline'}.
C5_HealthCheckNeverThrows ==
    (apiResult # None /\ LastCall.fn = "healthCheck")
    => /\ LastSettled.kind = "return"
       /\ LastResp.ok => LastSettled.value = LastResp.data
       /\ ~LastResp.ok => LastSettled.value = [status |-> "offline"]

\* a health check whose request failed has settled
C5_Witness ==
    /\ apiResult # None
    /\ LastCall.fn = "healthCheck"
    /\ ~LastResp.ok
    /\ LastSettled.kind = "return"


(***************************************************************************)
(* Properties of the Engines page (checked under SpecEngines).             *)
(***************************************************************************)
\* C1: with a status filter other than 'all', every displayed engine has the
\* selected status, and with an empty search term the displayed list is exactly
\* the loaded engines of that status.
C1_StatusFilterNarrows ==
    LET HasStatus(e) == e.status = eng.statusFilter
        shown == EnginesView.cards
    IN eng.statusFilter # "all"
       => /\ \A i \in 1..Len(shown) : shown[i].status = eng.statusFilter
          /\ eng.searchTerm = <<>> => shown = SelectSeq(eng.engines, HasStatus)

\* a loaded list with critical and other engines, filtered by 'critical'
C1_Witness ==
    /\ eng.statusFilter = "critical"
    /\ eng.searchTerm = <<>>
    /\ ~eng.isLoading
    /\ Len(EnginesView.cards) > 0
    /\ Len(EnginesView.cards) < Len(eng.engines)

(***************************************************************************)
(* Properties of the Dashboard's components.                               *)
(***************************************************************************)
\* C2: when the fetched engine list is empty, every Dashboard panel renders its
\* empty state: the summary cards, the engine grid, the alerts panel ("No
\* active alerts") and the RUL chart show no data items.  (Checked under Spec.)
C2_EmptyListRendersEmptyStates ==
    (/\ route = "Dashboard"
     /\ queries["engines"].data = Some(<<>>)
     /\ ~isFetching(queries["engines"]))
    => /\ DashboardView.summary.kind = "nodata"
       /\ DashboardView.grid.kind = "empty"
       /\ DashboardView.alerts.kind = "empty"
       /\ DashboardView.chart.kind = "empty"

\* C3: for every summary whose healthy, warning and critical counts sum to at
\* most total_engines, the three 'N% of fleet' values are well-defined numbers
\* whose sum is at most 100.  (Checked under SpecCards.)
C3_PercentagesSumAtMost100 ==
    (/\ view # None
     /\ view[1].kind = "cards"
     /\ props[1].data[1].healthy_engines + props[1].data[1].warning_engines
          + props[1].data[1].critical_engines <= props[1].data[1].total_engines)
    => LET pct(i) == view[1].cards[i].subtitle.num
       IN /\ \A i \in 2..4 : pct(i).kind = "finite"
          /\ pct(2).v + pct(3).v + pct(4).v <= 100

\* C10: the Dashboard's computed summary is consistent with the engine list:
\* total_engines is the list length, active_engines <= total_engines, healthy +
\* warning + critical <= total_engines, with equality exactly when every
\* engine's status is healthy, warning or critical.  (Checked under SpecDashboard.)
C10_SummaryConsistent ==
    view # None
    => LET engines == IF props[1].data = None THEN <<>> ELSE props[1].data[1]
           d == view[1].summaryData
           counted == d.healthy_engines + d.warning_engines + d.critical_engines
       IN /\ d.total_engines = Len(engines)
          /\ d.active_engines <= d.total_engines
          /\ counted <= d.total_engines
          /\ (counted = d.total_engines)
               <=> (\A i \in 1..Len(engines) : engines[i].status \in DeclaredStatuses)

\* a rendered Dashboard whose list holds an engine of an undeclared status next
\* to a healthy one, and an inactive engine
C10_Witness ==
    /\ view # None
    /\ props[1].data # None
    /\ view[1].summaryData.total_engines = 3
    /\ view[1].summaryData.healthy_engines = 1
    /\ view[1].summaryData.warning_engines + view[1].summaryData.critical_engines = 1
    /\ view[1].summaryData.active_engines = 2


\* C9: the aggregate numbers shown (the Dashboard's summary cards; Analytics'
\* total, average RUL, critical count, average confidence) depend on the engine
\* list only: two runs with the same engine list and different or failed
\* summary responses show identical aggregates.  (Checked under SpecTwoRuns.)
C9_AggregatesIgnoreSummary ==
    view # None => view[1][1] = view[1][2]

\* two rendered runs, one whose summary request failed or is unanswered and
\* one that received a summary disagreeing with the engine list
C9_Witness ==
    /\ view # None
    /\ props[1].data # None
    /\ Len(props[1].data[1]) = 2
    /\ props[1].summary[1].data = None
    /\ props[1].summary[2].data # None
    /\ props[1].summary[2].data[1].total_engines # view[1][2].totalEngines
    /\ ~props[1].isFetching


(***************************************************************************)
(* Properties of the running application (checked under Spec).             *)
(***************************************************************************)
\* the engine list the mounted page presents as its data
PresentedEngines ==
    CASE route = "Dashboard" -> DashboardView.grid.cards
      [] route = "Engines" -> EnginesView.cards
      [] OTHER -> <<>>

\* the fetch of the engine list the mounted page last made was given up as failed
LastEngineFetchFailed ==
    \/ /\ route = "Dashboard"
       /\ queries["engines"].status = "error"
       /\ ~isFetching(queries["engines"])
    \/ /\ route = "Engines"
       /\ loads.lastOutcome = "failed"
       /\ ~eng.isLoading

\* C6: if the most recent load of the engine list failed, the Engines page and
\* the Dashboard show an empty state and present no engines as current data.
C6_FailedLoadShowsEmptyState ==
    LastEngineFetchFailed => Len(PresentedEngines) = 0

\* C7: every failed fetch of engine or summary data is retried exactly once:
\* a fetch reported as failed has made exactly two attempts.
C7_EveryFailedFetchRetriedOnce ==
    /\ \A k \in QueryKeys :
          (queries[k].status = "error" /\ ~isFetching(queries[k]))
          => queries[k].attempts = Retry + 1
    /\ loads.lastOutcome = "failed" => loads.lastAttempts = Retry + 1

\* C7 as amended: a failed fetch of a query (Dashboard, Analytics) whose retry
\* was not cancelled by its page unmounting is retried exactly once, and no
\* fetch makes more than two attempts; a failed loadEngines of the Engines page
\* is not retried at all.
C7_QueryRetriedOnceLoadNever ==
    /\ \A k \in QueryKeys :
          /\ queries[k].attempts <= Retry + 1
          /\ (queries[k].status = "error" /\ ~isFetching(queries[k])
                /\ ~queries[k].retryCancelled)
             => (queries[k].attempts = Retry + 1 /\ queries[k].failureCount = Retry + 1)
    /\ loads.lastOutcome = "failed" => loads.lastAttempts = 1

\* the Dashboard's query was given up after its retry, and then a load of the
\* Engines page failed
C7_Witness ==
    /\ route = "Engines"
    /\ loads.lastOutcome = "failed"
    /\ queries["engines"].status = "error"
    /\ ~queries["engines"].retryCancelled
    /\ queries["engines"].attempts = 2

\* the interval at which the mounted page polls the engine list (0: it does not)
PollInterval ==
    CASE route \in {"Dashboard", "Analytics"} -> timers["engines"]
      [] OTHER -> 0

\* no fetch of the engine list is under way for the mounted page
EngineFetchIdle ==
    CASE route \in {"Dashboard", "Analytics"} -> ~isFetching(queries["engines"])
      [] route = "Engines" -> loads.current = 0
      [] OTHER -> TRUE

\* C8: every page that displays engine data (Dashboard, Analytics, Engines)
\* re-fetches it periodically while mounted, at a fixed interval between 10
\* and 30 seconds: whenever such a page is mounted and no fetch is under way,
\* its next fetch is scheduled.
C8_EveryEnginePagePolls ==
    (route \in {"Dashboard", "Analytics", "Engines"} /\ EngineFetchIdle)
    => (PollInterval >= 10000 /\ PollInterval <= 30000)

\* C8 as amended: the Dashboard re-fetches the engine list every 10 seconds and
\* Analytics its two queries every 30 seconds while mounted, a tick starting a
\* fetch unless one is under way; the Engines page arms no timer: it fetches
\* when it mounts and when the user presses Refresh.
C8_QueryPagesPollEnginesDoesNot ==
    /\ route = "Dashboard" => timers = [k \in QueryKeys |->
                                          IF k = "engines" THEN 10000 ELSE 0]
    /\ route = "Analytics" => timers = [k \in QueryKeys |-> 30000]
    /\ route \in {"Engines", "Settings"} => timers = [k \in QueryKeys |-> 0]
    /\ \A k \in QueryKeys :
          timers[k] > 0 => (isFetching(queries[k]) \/ ENABLED TimerFire(k))
    /\ (route = "Engines" /\ loads.current = 0) => (~eng.isLoading /\ ENABLED Refresh)

\* the Dashboard polled the engine list; then the Engines page mounted, loaded
\* its own copy and sits idle with no timer armed
C8_Witness ==
    /\ route = "Engines"
    /\ loads.current = 0
    /\ loads.lastOutcome = "ok"
    /\ Len(eng.engines) > 0
    /\ queries["engines"].status = "success"
    /\ timers["engines"] = 0

\* ---- alerts (C11, C12, C18) ----
\* the number of alerts of a list with the given id
AlertsWithId(alerts, id) == Cardinality({ i \in 1..Len(alerts) : alerts[i].id = id })

\* C11: for every engine of the list the panel holds one critical alert iff
\* the engine's status is critical, one warning alert iff its status is
\* warning (never both), and one info confidence alert iff its confidence is
\* below 0.7 whatever its status; the only other alert is the one system
\* alert, so the number of alerts is #critical + #warning + #low-confidence + 1.
C11_AlertThresholds ==
    (view # None /\ props[1].engines # None) =>
       LET engines == props[1].engines[1]
           alerts == view[1].alerts
           Critical == { i \in 1..Len(engines) : engines[i].status = "critical" }
           Warning == { i \in 1..Len(engines) : engines[i].status = "warning" }
           LowConfidence == { i \in 1..Len(engines) : engines[i].confidence < 70 }
       IN /\ \A i \in 1..Len(engines) :
                LET crit == AlertsWithId(alerts, <<"critical-", engines[i].id>>)
                    warn == AlertsWithId(alerts, <<"warning-", engines[i].id>>)
                    conf == AlertsWithId(alerts, <<"confidence-", engines[i].id>>)
                IN /\ crit = (IF i \in Critical THEN 1 ELSE 0)
                   /\ warn = (IF i \in Warning THEN 1 ELSE 0)
                   /\ crit + warn <= 1
                   /\ conf = (IF i \in LowConfidence THEN 1 ELSE 0)
          /\ AlertsWithId(alerts, <<"system-", 1>>) = 1
          /\ \A i \in 1..Len(alerts) :
                /\ alerts[i].id[1] = "critical-" => alerts[i].type = "critical"
                /\ alerts[i].id[1] = "warning-" => alerts[i].type = "warning"
                /\ alerts[i].id[1] \in {"confidence-", "system-"} => alerts[i].type = "info"
          /\ Len(alerts) = Cardinality(Critical) + Cardinality(Warning)
                            + Cardinality(LowConfidence) + 1

\* a critical engine of low confidence, a warning engine at exactly 0.7 and
\* an engine of another status with low confidence were rendered
C11_Witness ==
    /\ view # None /\ props[1].engines # None
    /\ LET engines == props[1].engines[1]
       IN /\ Len(engines) = 3
          /\ engines[1].status = "critical" /\ engines[1].confidence = 69
          /\ engines[2].status = "warning" /\ engines[2].confidence = 70
          /\ engines[3].status = "maintenance" /\ engines[3].confidence = 69
    /\ Len(view[1].alerts) = 5

\* C12: after any sequence of polls the alerts on display are exactly the
\* ones generated from the engine list supplied last; an alert of an engine
\* that is no longer in the list (or no longer meets its threshold) is gone.
C12_AlertsFromLatestListOnly ==
    props[1].engines # None =>
       LET engines == props[1].engines[1]
           alerts == view[1].alerts
       IN /\ alerts = generateAlertsFromEngines(engines)
          /\ \A i \in 1..Len(alerts) :
                alerts[i].engineName # None =>
                   \E j \in 1..Len(engines) :
                      /\ alerts[i].id[2] = engines[j].id
                      /\ alerts[i].id[1] = "critical-" => engines[j].status = "critical"
                      /\ alerts[i].id[1] = "warning-" => engines[j].status = "warning"
                      /\ alerts[i].id[1] = "confidence-" => engines[j].confidence < 70
          /\ AlertsWithId(alerts, <<"system-", 1>>) = 1

\* a poll delivered a critical engine of low confidence and the next poll a
\* healthy list: only the system alert is on display
C12_Witness ==
    /\ props[1].before # None /\ props[1].engines # None
    /\ Len(props[1].before[1]) = 1
    /\ props[1].before[1][1].status = "critical" /\ props[1].before[1][1].confidence = 69
    /\ Len(props[1].engines[1]) = 1
    /\ props[1].engines[1][1].status = "healthy" /\ props[1].engines[1][1].confidence = 95
    /\ Len(view[1].alerts) = 1

\* C18: the alerts are ordered by severity (critical, then warning, then
\* info) and alerts of equal severity keep the order they were generated in:
\* engine order, the system alert last.
C18_SortedBySeverityStable ==
    (view # None /\ props[1].engines # None) =>
       LET alerts == view[1].alerts
           Before(a, b) == \/ a.type = "critical" /\ b.type \in {"warning", "info"}
                           \/ a.type = "warning" /\ b.type = "info"
       IN \A i, j \in 1..Len(alerts) :
             i < j =>
                /\ ~Before(alerts[j], alerts[i])
                /\ alerts[i].type = alerts[j].type =>
                      /\ alerts[i].id[1] # "system-"
                      /\ alerts[j].id[1] # "system-" => alerts[i].id[2] < alerts[j].id[2]

\* a list whose pushed order differs from the sorted one was rendered: a
\* low-confidence healthy engine, then a warning one, then two critical ones
C18_Witness ==
    /\ view # None /\ props[1].engines # None
    /\ LET engines == props[1].engines[1]
       IN /\ Len(engines) = 3
          /\ engines[1].status = "healthy" /\ engines[1].confidence = 69
          /\ engines[2].status = "warning" /\ engines[2].confidence = 69
          /\ engines[3].status = "critical" /\ engines[3].confidence = 69
    /\ view[1].alerts[1].type = "critical"
    /\ view[1].alerts[Len(view[1].alerts)].id = <<"system-", 1>>

\* ---- the progress ring (C13) ----
\* C13: the progress percentage is 0 for a RUL of 0 or less, 100 for a RUL of
\* 300 or more and rul / 300 * 100 in between; it never decreases as the RUL
\* grows; and the ring's strokeDashoffset lies between 0 and the circumference.
C13_ProgressClamped ==
    view # None =>
       LET rul == props[1].engine.current_rul
           pct == view[1].progressPercentage
       IN /\ rul <= 0 => pct = 0
          /\ rul >= 300 => pct = 100 * PercentUnit
          /\ (0 < rul /\ rul < 300) => pct * 300 = rul * 100 * PercentUnit
          /\ \A lower \in RulValues :
                lower <= rul => getProgressPercentage(lower) <= pct
          /\ 0 <= view[1].strokeDashoffset
          /\ view[1].strokeDashoffset <= circumference
          /\ view[1].strokeDashoffset * 100 * PercentUnit
                = (100 * PercentUnit - pct) * circumference

\* a card was rendered for an engine whose RUL is above the assumed maximum
C13_Witness ==
    /\ view # None
    /\ props[1].engine.current_rul > AssumedMaxRul
    /\ view[1].progressPercentage = 100 * PercentUnit
    /\ view[1].strokeDashoffset = 0

\* ---- the chart's fabricated history (C14, C20) ----
\* C14: for a non-empty list the data points are in chronological order,
\* oldest first, consecutive points exactly one hour apart, the first 24
\* hours before now and the last at now, and every point carries a value
\* for every engine of the list; for an empty or missing list there is no
\* chart data.
C14_HourlyPointsOldestFirst ==
    view # None =>
       LET data == view[1].chartData
           now == props[1].now
       IN IF props[1].engines = None \/ Len(props[1].engines[1]) = 0
          THEN data = <<>>
          ELSE /\ Len(data) = HoursBack + 1
               /\ data[1][TimestampKey] = Num(now - HoursBack * HourMs)
               /\ data[Len(data)][TimestampKey] = Num(now)
               /\ \A p \in 1..(Len(data) - 1) :
                     data[p + 1][TimestampKey].n = data[p][TimestampKey].n + HourMs
               /\ \A p \in 1..Len(data) :
                     \A j \in 1..Len(props[1].engines[1]) :
                        /\ props[1].engines[1][j].name \in DOMAIN data[p]
                        /\ data[p][props[1].engines[1][j].name].kind = "number"

\* the engine whose value a point holds under a name: the last one of that name
LastNamed(engines, name) ==
    engines[CHOOSE j \in 1..Len(engines) :
               /\ engines[j].name = name
               /\ \A k \in (j + 1)..Len(engines) : engines[k].name # name]

\* C20: every fabricated value is a non-negative whole number near the
\* degradation line r + i * rate of the engine it was computed for (rate 2
\* for critical, 1 for warning, 0.5 otherwise; i the point's hours back):
\* when the line is at 5 or above, the value differs from it by less than 5.5.
C20_ValuesNearDegradationLine ==
    (view # None /\ props[1].engines # None) =>
       LET engines == props[1].engines[1]
           data == view[1].chartData
       IN \A p \in 1..Len(data), j \in 1..Len(engines) :
             LET i == HoursBack - (p - 1)
                 engine == LastNamed(engines, engines[j].name)
                 rate == CASE engine.status = "critical" -> 4
                           [] engine.status = "warning" -> 2
                           [] OTHER -> 1
                 line == 2 * engine.current_rul + i * rate
                 value == data[p][engines[j].name]
             IN /\ value.kind = "number"
                /\ value.n >= 0
                /\ line >= 2 * 5 =>
                      /\ 2 * value.n - line < 11
                      /\ line - 2 * value.n < 11

\* a chart was drawn for a healthy engine and one whose line starts below 5:
\* the oldest point holds a value 5 below the line, the newest one clamped to 0
C20_Witness ==
    /\ view # None /\ props[1].engines # None
    /\ Len(props[1].engines[1]) = 2
    /\ props[1].engines[1][1].status = "healthy" /\ props[1].engines[1][1].current_rul = 250
    /\ props[1].engines[1][2].status = "warning" /\ props[1].engines[1][2].current_rul = 3
    /\ view[1].chartData[1][<<"A">>].n = 250 + 12 - 5
    /\ view[1].chartData[HoursBack + 1][<<"B">>].n = 0

\* ---- the simulated actions (C15) ----
\* C15: Save Changes and Analytics' Refresh only set a busy flag and a
\* 1500 ms timer: while the flag is set the button is disabled and exactly
\* that timer is pending, the flag returns to false in the end, and a step
\* that sets or clears the flag issues no request and leaves the settings
\* values and the fetched data as they were.
C15_SimulatedActionsTimerOnly ==
    /\ [][settings'.isSaving # settings.isSaving =>
             /\ settings'.notifications = settings.notifications
             /\ settings'.modelSettings = settings.modelSettings
             /\ settings'.systemSettings = settings.systemSettings
             /\ UNCHANGED <<queries, timers, loads, apiCall>>]_vars
    /\ [][analytics'.isLoading # analytics.isLoading =>
             /\ analytics'.selectedTimeRange = analytics.selectedTimeRange
             /\ UNCHANGED <<queries, timers, loads, apiCall>>]_vars
    /\ [](settings.isSaving =>
             SaveButton(settings).disabled /\ timeouts.save = <<1500>>)
    /\ [](analytics.isLoading =>
             RefreshButton(analytics).disabled /\ timeouts.refresh = <<1500>>)
    /\ [](~settings.isSaving => timeouts.save = <<>>)
    /\ [](~analytics.isLoading => timeouts.refresh = <<>>)
    /\ (settings.isSaving ~> ~settings.isSaving)
    /\ (analytics.isLoading ~> ~analytics.isLoading)

\* Save Changes was pressed after the user had switched SMS alerts on
C15_Witness ==
    /\ route = "Settings"
    /\ settings.isSaving
    /\ settings.notifications.smsAlerts
    /\ timeouts.save # <<>>

\* ---- unmounting (C16) and the engine lists held (C17) ----
\* C16: once a page has unmounted, its work still pending updates the state
\* of no view: a request of an unmounted Engines page that settles leaves
\* the Engines state as it is, a timer of an unmounted Settings or Analytics
\* that runs leaves their state as it is, a page that is not mounted holds
\* no state; and no poll is issued for it: no refetch timer runs and no
\* request starts for a query the mounted page does not observe.
C16_UnmountedWorkUpdatesNoView ==
    /\ [][loads'.orphans < loads.orphans => eng' = eng]_vars
    /\ [][timeouts'.orphans < timeouts.orphans =>
             settings' = settings /\ analytics' = analytics]_vars
    /\ [][\A k \in QueryKeys :
             (queries'[k].phase = "request" /\ queries[k].phase # "request")
                => k \in Observed(route')]_vars
    /\ [](\A k \in QueryKeys : timers[k] > 0 => k \in Observed(route))
    /\ [](route # "Engines" => eng = EnginesInitial /\ loads.current = 0)
    /\ [](route # "Settings" => settings = SettingsInitial /\ timeouts.save = <<>>)
    /\ [](route # "Analytics" => analytics = AnalyticsInitial /\ timeouts.refresh = <<>>)

\* the Engines page was left while its request was in flight and is mounted
\* again, with a request of its own, before the old request has settled
C16_Witness ==
    /\ route = "Engines"
    /\ loads.orphans > 0
    /\ loads.current > 0

\* C17: the client never alters the engine records it holds: the list a
\* query or the Engines page holds changes only when a fetch of it succeeds,
\* and then becomes the fetched list as a whole (or when the holder is
\* discarded: the page unmounts, the cache entry is collected).
C17_HeldListsOnlyReplaced ==
    /\ [][queries'["engines"].data # queries["engines"].data =>
             \/ queries'["engines"] = NewQuery
             \/ /\ queries["engines"].phase = "request"
                /\ \E list \in EngineLists : queries'["engines"].data = Some(list)]_vars
    /\ [][eng'.engines # eng.engines =>
             \/ route' # route /\ eng'.engines = <<>>
             \/ /\ loads.current > 0
                /\ loads'.lastOutcome = "ok"
                /\ eng'.engines \in EngineLists]_vars

\* the Engines page holds a fetched engine while the query cache holds a
\* list fetched for the Dashboard or Analytics
C17_Witness ==
    /\ route = "Engines"
    /\ Len(eng.engines) > 0
    /\ loads.lastOutcome = "ok"
    /\ queries["engines"].data # None
    /\ Len(queries["engines"].data[1]) > 0

\* ---- the Engines search (C19) ----
\* two characters that differ at most in case
SameLetter(c, d) == c = d \/ {c, d} = {"A", "a"} \/ {c, d} = {"B", "b"}

\* t occurs in s as a contiguous substring, case ignored
OccursIgnoringCase(s, t) ==
    \E offset \in 0..(Len(s) - Len(t)) :
        \A k \in 1..Len(t) : SameLetter(s[offset + k], t[k])

\* C19: the Engines page displays exactly the loaded engines whose name or
\* model contains the search term, case ignored, and whose status passes the
\* status filter, in the order of the loaded list (a subsequence of it); with
\* an empty search term and the filter 'all' it displays the loaded list.
C19_SearchAndFilter ==
    LET shown == EnginesView.cards
        Wanted(e) ==
            /\ OccursIgnoringCase(e.name, eng.searchTerm)
                 \/ OccursIgnoringCase(e.model, eng.searchTerm)
            /\ eng.statusFilter = "all" \/ e.status = eng.statusFilter
        kept == { i \in 1..Len(eng.engines) : Wanted(eng.engines[i]) }
    IN /\ Len(shown) = Cardinality(kept)
       /\ \E pos \in [1..Len(shown) -> 1..Len(eng.engines)] :
             /\ \A i \in 1..Len(shown) : pos[i] \in kept /\ shown[i] = eng.engines[pos[i]]
             /\ \A i, j \in 1..Len(shown) : i < j => pos[i] < pos[j]
       /\ (eng.searchTerm = <<>> /\ eng.statusFilter = "all") => shown = eng.engines

\* the user searched for "B" among warning engines: an engine named "ba" is
\* displayed and another engine of the loaded list is not
C19_Witness ==
    /\ eng.searchTerm = <<"B">>
    /\ eng.statusFilter = "warning"
    /\ Len(eng.engines) = 3
    /\ Len(EnginesView.cards) = 1
    /\ EnginesView.cards[1].name = <<"b", "a">>

\* ---- the Dashboard's average RUL (C21) ----
\* C21: the Dashboard's average_rul is 0 when no engine is active, and
\* otherwise the rounded arithmetic mean of current_rul over the active
\* engines; it never exceeds the largest current_rul of the list.
C21_AverageOverActiveEngines ==
    view # None =>
       LET engines == IF props[1].data = None THEN <<>> ELSE props[1].data[1]
           Active == { i \in 1..Len(engines) : engines[i].is_active }
           RECURSIVE SumOver(_)
           SumOver(S) ==
               IF S = {} THEN 0
               ELSE LET i == CHOOSE j \in S : TRUE
                    IN engines[i].current_rul + SumOver(S \ {i})
           n == Cardinality(Active)
           avg == view[1].summaryData.average_rul
       IN /\ n = 0 => avg = 0
          /\ n > 0 => avg = (2 * SumOver(Active) + n) \div (2 * n)
          /\ \A i \in 1..Len(engines) :
                (\A j \in 1..Len(engines) : engines[j].current_rul <= engines[i].current_rul)
                   => avg <= engines[i].current_rul

\* ---- the Engines page's details modal (C22) ----
\* C22: the details modal is shown iff showDetails is true and an engine is
\* selected: after View Details on an engine of the loaded list the modal
\* is rendered, without an error.
C22_DetailsModalRenders ==
    route = "Engines" =>
       /\ (eng.showDetails /\ eng.selectedEngine # None)
             <=> EngineDetailsModal(eng).kind = "modal"
       /\ EngineDetailsModal(eng).kind # "error"

\* ---- Engines.loadEngines (C23, C24) and the summary stats (C27) ----
\* C23: isLoading is true exactly while a load is under way; when the
\* request settles the flag is false, whether it succeeded or failed; on
\* success the engine list becomes a response as a whole, on failure it is
\* left as it was; the search term, the status filter and the selection are
\* left as they were in both cases.
C23_LoadAlwaysClearsFlag ==
    /\ [](eng.isLoading <=> loads.current > 0)
    /\ [][loads'.current < loads.current =>
             /\ ~eng'.isLoading
             /\ loads'.lastOutcome = "ok" => eng'.engines \in EnginesFleetLists
             /\ loads'.lastOutcome = "failed" => eng'.engines = eng.engines
             /\ eng'.searchTerm = eng.searchTerm
             /\ eng'.statusFilter = eng.statusFilter
             /\ eng'.selectedEngine = eng.selectedEngine
             /\ eng'.showDetails = eng.showDetails]_vars
    /\ [][loads'.current > loads.current => eng'.isLoading]_vars

\* a refresh failed after an earlier load had succeeded and the user had
\* set a filter: the flag is cleared and the list is still there
C23_Witness ==
    /\ loads.lastOutcome = "failed"
    /\ ~eng.isLoading
    /\ Len(eng.engines) > 0
    /\ eng.statusFilter = "warning"

\* C24 as stated: at most one getEngines request issued by the Engines page
\* is in flight at any time.
C24_OneRequestInFlight == loads.current + loads.orphans <= 1

\* C24, amended: the mounted Engines page has at most one request in
\* flight: Refresh is disabled exactly while that request is in flight, so
\* the responses applied to the page arrive in the order of their requests;
\* a request of an earlier mount may still be in flight beside it.
C24_OneRequestPerMountedPage ==
    /\ loads.current <= 1
    /\ route = "Engines" =>
          /\ eng.isLoading <=> loads.current = 1
          /\ EnginesView.refreshDisabled <=> loads.current = 1
    /\ route # "Engines" => loads.current = 0

\* a refresh is in flight after the load on mount has delivered a list
C24_Witness ==
    /\ route = "Engines"
    /\ Len(eng.engines) > 0
    /\ loads.current = 1
    /\ EnginesView.refreshDisabled

\* C27: the four summary stats the page shows (EnginesStats of its state)
\* count the loaded list, not the displayed one:
\* a change of the search term or of the status filter leaves them as they
\* are, and they change only when a load succeeds.
C27_StatsOverLoadedList ==
    /\ [](LET WithStatus(status) ==
                  Cardinality({ i \in 1..Len(eng.engines) : eng.engines[i].status = status })
          IN /\ EnginesView.stats.total = Len(eng.engines)
             /\ EnginesView.stats.healthy = WithStatus("healthy")
             /\ EnginesView.stats.warning = WithStatus("warning")
             /\ EnginesView.stats.critical = WithStatus("critical"))
    /\ [][(eng'.searchTerm # eng.searchTerm \/ eng'.statusFilter # eng.statusFilter)
             => EnginesStats(eng') = EnginesStats(eng)]_vars
    /\ [][EnginesStats(eng') # EnginesStats(eng) =>
             loads'.current < loads.current /\ loads'.lastOutcome = "ok"]_vars

\* three engines are loaded and the filter displays one of them
C27_Witness ==
    /\ Len(eng.engines) = 3
    /\ eng.statusFilter = "critical"
    /\ Len(EnginesView.cards) = 1
    /\ EnginesView.stats.total = 3

\* ---- Dashboard while polling (C25) ----
\* C25: once the Dashboard's query holds a fetched list, the summary cards
\* and the engine grid display that list, also while a background poll is
\* in flight: the loading skeleton does not take their place.
C25_PollKeepsDataDisplayed ==
    (route = "Dashboard" /\ queries["engines"].data # None) =>
        /\ DashboardView.summary.kind = "cards"
        /\ DashboardView.summary.cards =
             SummaryCards(Some(summaryComputed(queries["engines"].data[1])), FALSE).cards
        /\ DashboardView.grid.kind # "skeleton"
        /\ DashboardView.grid.cards = EngineGrid(queries["engines"].data, FALSE).cards

\* ---- Analytics.processEngineData (C26) ----
\* C26: the five RUL buckets carry the labels 0-50, 51-100, 101-150,
\* 151-200 and 200+, their counts sum to the number of engines, and a bucket
\* counts no more engines than have a current_rul in the range its label
\* names; the engine-type counts sum to the number of engines; the
\* healthy, warning and critical counts are the numbers of engines of that
\* status.
C26_BucketsPartitionEngines ==
    view # None =>
        LET engines == IF props[1].engines = None THEN <<>> ELSE props[1].engines[1]
            charts == view[1]
            n == Len(engines)
            Low == <<0, 51, 101, 151, 201>>
            High == <<50, 100, 150, 200, 201 + n>>
            InRange(b) == { i \in 1..n : /\ engines[i].current_rul >= Low[b]
                                         /\ b < 5 => engines[i].current_rul <= High[b] }
            WithStatus(status) == Cardinality({ i \in 1..n : engines[i].status = status })
            RECURSIVE Total(_)
            Total(s) == IF s = <<>> THEN 0 ELSE Head(s) + Total(Tail(s))
        IN /\ Len(charts.rulDistribution) = 5
           /\ \A b \in 1..5 :
                 /\ charts.rulDistribution[b].range = rulRangeLabels[b]
                 /\ charts.rulDistribution[b].count <= Cardinality(InRange(b))
           /\ Total([b \in 1..5 |-> charts.rulDistribution[b].count]) = n
           /\ Total([j \in 1..Len(charts.engineTypeData) |->
                       charts.engineTypeData[j].value]) = n
           /\ charts.statusData[1].value = WithStatus("healthy")
           /\ charts.statusData[2].value = WithStatus("warning")
           /\ charts.statusData[3].value = WithStatus("critical")

\* ---- generateHistoricalData's keys (C28) ----
\* C28: in every data point the time and timestamp fields hold the point's
\* time, whatever the engines are named, and every engine has a series of
\* its own: the point has one value per engine, and the value under an
\* engine's name is the one computed for that engine.
C28_TimeFieldsAndOwnSeries ==
    (view # None /\ props[1].engines # None) =>
       LET engines == props[1].engines[1]
           data == view[1].chartData
           now == props[1].now
       IN \A p \in 1..Len(data) :
             LET i == HoursBack - (p - 1)
                 first == (HoursBack - i) * Len(engines)
             IN /\ data[p][TimeKey] = toLocaleTimeString(now - i * HourMs)
                /\ data[p][TimestampKey] = Num(now - i * HourMs)
                /\ Cardinality(DOMAIN data[p]) = 2 + Len(engines)
                /\ \A j \in 1..Len(engines) :
                      data[p][engines[j].name] =
                         Num(historicalValue(engines[j], i,
                                             Random(props[1].random, first + j - 1)))

====
